---- MODULE Spec2Model ----
(***************************************************************************)
(* Wikipedia path finder: bidirectional BFS engine, K-diverse search,      *)
(* cache-aware orchestrator and progress stream (src/app.py), with the     *)
(* segment cache (src/app/cache.py) and segment store                      *)
(* (src/app/database.py).                                                  *)
(*                                                                         *)
(* A title is a sequence of one-character strings.  The remote graph is a  *)
(* set of directed edges between pages, each page named by its canonical   *)
(* title; the engine keys its visited sets and parent maps by normalized   *)
(* titles.                                                                 *)
(***************************************************************************)
EXTENDS Integers, Sequences, FiniteSets, TLC

----------------------------------------------------------------------------
(* Titles and normalize_title                                              *)

\* Python's None where a title or a path is expected: the empty sequence.
\* No title of the model is empty, so it is never confused with a title.
None == <<>>

\* str.lower() on one character.
LowerChar(c) ==
    CASE c = "A" -> "a"
      [] c = "B" -> "b"
      [] c = "C" -> "c"
      [] c = "D" -> "d"
      [] c = "E" -> "e"
      [] OTHER -> c

\* Whitespace as str.strip() sees it (the model's alphabet has the space only).
IsSpace(c) == c = " "

RECURSIVE LStrip(_)
LStrip(t) == IF t /= <<>> /\ IsSpace(Head(t)) THEN LStrip(Tail(t)) ELSE t

RECURSIVE RStrip(_)
RStrip(t) ==
    IF t /= <<>> /\ IsSpace(t[Len(t)]) THEN RStrip(SubSeq(t, 1, Len(t) - 1)) ELSE t

\* str.strip()
Strip(t) == RStrip(LStrip(t))

\* str.replace("_", " ")
ReplaceUnderscore(t) == [i \in 1..Len(t) |-> IF t[i] = "_" THEN " " ELSE t[i]]

\* str.lower()
Lower(t) == [i \in 1..Len(t) |-> LowerChar(t[i])]

\* title.strip().replace("_", " ").lower()
normalize_title(title) == Lower(ReplaceUnderscore(Strip(title)))

----------------------------------------------------------------------------
(* The remote graph (the Wikipedia API as the client sees it)              *)

PA == <<"A">>
PB == <<"B">>
PC == <<"C">>
PD == <<"D">>
PE == <<"E">>

\* The pages of the remote graph, by canonical title.
Pages == {PA, PB, PC, PD, PE}

\* The remote API resolves a title to its page (first-letter case, underscores).
PageOf(title) == CHOOSE p \in Pages : normalize_title(p) = normalize_title(title)

\* All orders in which the remote API may list the set S.
Orderings(S) ==
    {s \in [1..Cardinality(S) -> S] : \A i, j \in 1..Cardinality(S) : i /= j => s[i] /= s[j]}

\* range of a sequence
Range(s) == {s[i] : i \in 1..Len(s)}

----------------------------------------------------------------------------
(* State                                                                   *)

VARIABLES
    \* the remote graph
    wiki_links,         \* set of <<p, q>>: page p links to page q
    stale_backlinks,    \* set of <<p, q>>: backlinks of p list q without q -> p
    missing_pages,      \* pages the API reports missing
    failing_pages,      \* pages whose links request fails (HTTP / transport)
    \* WikipediaPathFinder and the arguments of the running search
    max_depth,          \* self.max_depth
    edge_cache,         \* self._edge_cache: (from, to) -> bool
    visited,            \* self.visited
    start, end,         \* the search's arguments
    callback,           \* whether a callback was passed
    \* locals of find_path_bidirectional / find_k_paths_bidirectional
    forward_queue, backward_queue,
    forward_visited, backward_visited,
    forward_parents, backward_parents,
    forward_depth, backward_depth,
    pages_checked,
    \* arguments and locals of find_k_paths_bidirectional only
    max_paths,
    min_diversity,      \* <<n, d>>: the threshold n/d
    found_paths,
    shortest_path_length,   \* 0 for None
    \* PathCache and the segment store behind it
    lru,                \* self._cache, oldest first: [key, segment]
    store,              \* path_segments in rowid order:
                        \* [start_page, end_page, segment_path, use_count]
    \* find_path_with_cache
    hit_type,           \* cache_info['cache_hit_type'], "none" before the call
    composed_path,      \* the candidate awaiting validation
    segment_metadata,   \* what compose_path returned with it
    \* find_path_stream.generate_events
    task,               \* search_task: "none", "running", "finished", "cancelled"
    task_posts,         \* what run_search itself put on event_queue
    consumed,           \* how many items the consumer loop has taken
    keepalives,         \* keepalive frames yielded (capped)
    stream_pc,          \* "none", "consume", "await", "closed", "cancelled",
                        \* "abandoned"
    saved_searches,     \* the records database.save_search wrote for the search
    \* find_path_endpoint
    response,           \* "none", "success", "no_path", "timeout", "error"
    \* a client of PathCache
    last_call,          \* the last call made on the cache and what it returned
    calls,              \* how many calls that client has made
    \* a caller of normalize_title
    x_title,            \* a title, as typed
    y_title,            \* a title that differs from it in case, "_" / " " only
    x_key,              \* normalize_title(x_title)
    y_key,              \* normalize_title(y_title)
    x_key_again,        \* normalize_title(x_key)
    \* a call of a client method through retry_on_failure's wrapper, or of
    \* database.save_path_segments_bulk through its retry loop
    client_fn,          \* the decorated method called
    client_arg,         \* its page_title / search_term
    attempt,            \* the wrapper's loop variable
    attempts,           \* the outcome of each remote request the call made
    sleeps,             \* the backoff sleeps of the call, in milliseconds
    client_return,      \* what the call surfaced to its caller
    \* threads calling PathCache methods
    lock_holder,        \* the thread that holds self._lock, "free" when none
    thread_pc,          \* where each thread is in its call
    thread_call,        \* the call each thread is making
    \* control
    pc,                 \* where the search is
    result,             \* what the engine returned (None: no path)
    events,             \* the events passed to the callback, in order
    client_calls,       \* number of remote link / backlink requests issued
    validator_fetches,  \* the source pages _validate_edge requested links for, in order
    idle_iterations,    \* main-loop iterations that expanded nothing
    meeting,            \* how the returned path's meeting point was found
    rejected            \* candidate paths the validator rejected in this search

graphVars == <<wiki_links, stale_backlinks, missing_pages, failing_pages>>
finderVars == <<max_depth, edge_cache, visited>>
argVars == <<start, end, callback>>
bfsVars == <<forward_queue, backward_queue, forward_visited, backward_visited,
             forward_parents, backward_parents, forward_depth, backward_depth,
             pages_checked>>
kVars == <<max_paths, min_diversity, found_paths, shortest_path_length>>
ctlVars == <<pc, result, events, client_calls, validator_fetches, idle_iterations, meeting,
            rejected>>
cacheVars == <<lru, store>>
orchVars == <<hit_type, composed_path, segment_metadata>>
streamVars == <<task, task_posts, consumed, keepalives, stream_pc, saved_searches>>
normVars == <<x_title, y_title, x_key, y_key, x_key_again>>
retryVars == <<client_fn, client_arg, attempt, attempts, sleeps, client_return>>
endpointVars == <<response>>
threadVars == <<lock_holder, thread_pc, thread_call>>
sideVars == <<last_call, calls, normVars, retryVars, endpointVars, threadVars>>
outerVars == <<cacheVars, orchVars, streamVars, sideVars>>  \* what the engines never touch
vars == <<graphVars, finderVars, argVars, bfsVars, kVars, cacheVars, orchVars,
          streamVars, sideVars, ctlVars>>

----------------------------------------------------------------------------
(* Wikipedia client                                                        *)

\* A variant of OutLinks in which a failed request still yields the links.
OutLinks_despite_failure(title) ==
    {e[2] : e \in {x \in wiki_links : x[1] = PageOf(title)}}

\* The titles get_wikipedia_links returns for a page that exists: the
\* page's links, or [] when the request fails ("except httpx.HTTPError").
OutLinks(title) ==
    IF PageOf(title) \in failing_pages THEN {}
    ELSE {e[2] : e \in {x \in wiki_links : x[1] = PageOf(title)}}

\* get_wikipedia_links returns None (page missing).
LinksMissing(title) == PageOf(title) \in missing_pages

\* The titles get_wikipedia_backlinks returns: every page that links to the
\* title, and the stale entries the backlinks API reports besides.
BackLinks(title) ==
    {e[1] : e \in {x \in wiki_links : x[2] = PageOf(title)}}
        \cup {e[2] : e \in {x \in stale_backlinks : x[1] = PageOf(title)}}

----------------------------------------------------------------------------
(* Path reconstruction                                                     *)

\* _reconstruct_forward_path, before the final reversal: meeting point first.
RECURSIVE ForwardChain(_, _)
ForwardChain(current, parents) ==
    IF current = None THEN <<>>
    ELSE <<parents[current][2]>> \o ForwardChain(parents[current][1], parents)

Reverse(s) == [i \in 1..Len(s) |-> s[Len(s) + 1 - i]]

reconstruct_forward_path(meeting_point, parents) ==
    Reverse(ForwardChain(meeting_point, parents))

\* A variant of _reconstruct_backward_path: the meeting point is not skipped.
reconstruct_backward_path_keeps_meeting(meeting_point, parents) ==
    ForwardChain(meeting_point, parents)

\* _reconstruct_backward_path: from the meeting point's parent to the root,
\* the meeting point itself skipped.
reconstruct_backward_path(meeting_point, parents) ==
    ForwardChain(parents[meeting_point][1], parents)

----------------------------------------------------------------------------
(* Path validator                                                          *)

\* The memo entries one _validate_edge call writes after fetching from_page.
EdgeFetchWrites(from_page, to_page) ==
    LET f == normalize_title(from_page)
        t == normalize_title(to_page)
    IN  IF LinksMissing(from_page) THEN {<<<<f, t>>, FALSE>>}
        ELSE {<<<<f, normalize_title(l)>>, TRUE>> : l \in OutLinks(from_page)}
                 \cup (IF t \in {normalize_title(l) : l \in OutLinks(from_page)}
                       THEN {} ELSE {<<<<f, t>>, FALSE>>})

\* A variant of _validate_edge that looks for the target title as spelled.
validate_edge_as_spelled(memo, from_page, to_page) ==
    LET key == <<normalize_title(from_page), normalize_title(to_page)>>
    IN  IF key \in DOMAIN memo THEN memo[key]
        ELSE /\ ~LinksMissing(from_page)
             /\ to_page \in OutLinks(from_page)

\* _validate_edge: the memo's answer if it has one, else the fetched answer.
validate_edge(memo, from_page, to_page) ==
    LET key == <<normalize_title(from_page), normalize_title(to_page)>>
    IN  IF key \in DOMAIN memo THEN memo[key]
        ELSE /\ ~LinksMissing(from_page)
             /\ key[2] \in {normalize_title(l) : l \in OutLinks(from_page)}

\* The edges of a path whose validation fetches (memo miss); asyncio.gather
\* starts every task before any fetch completes, so all consult the memo as
\* it was at the call.
FetchingEdges(memo, path) ==
    {i \in 1..(Len(path) - 1) :
        <<normalize_title(path[i]), normalize_title(path[i + 1])>> \notin DOMAIN memo}

\* The source pages of the edges of a path whose validation fetches, in the
\* order of the edges.
RECURSIVE SourcesFrom(_, _, _)
SourcesFrom(memo, path, i) ==
    IF i >= Len(path) THEN <<>>
    ELSE (IF i \in FetchingEdges(memo, path) THEN <<normalize_title(path[i])>> ELSE <<>>)
             \o SourcesFrom(memo, path, i + 1)

FetchedSources(memo, path) == SourcesFrom(memo, path, 1)

\* A variant of _validate_path that accepts every path without a fetch.
validate_path_accepting(memo, path) == [valid |-> TRUE, memo |-> memo, calls |-> 0]

\* _validate_path: [valid, memo, calls]
validate_path(memo, path) ==
    IF Len(path) < 2 THEN [valid |-> TRUE, memo |-> memo, calls |-> 0]
    ELSE LET fetching == FetchingEdges(memo, path)
             writes == UNION {EdgeFetchWrites(path[i], path[i + 1]) : i \in fetching}
             keys == {w[1] : w \in writes}
             new == [k \in keys |-> (CHOOSE w \in writes : w[1] = k)[2]]
         IN  [valid |-> \A i \in 1..(Len(path) - 1) :
                            validate_edge(memo, path[i], path[i + 1]),
              memo |-> new @@ memo,
              calls |-> Cardinality(fetching)]

\* self._edge_cache.clear()
EmptyMemo == [k \in {} |-> TRUE]

\* The memo entries BFS expansion of current_page seeds for its links.
SeedMemo(memo, current_page, links) ==
    [k \in {<<normalize_title(current_page), normalize_title(l)>> : l \in Range(links)}
        |-> TRUE] @@ memo

----------------------------------------------------------------------------
(* find_path_bidirectional                                                 *)

\* A variant of SamePage under which no two titles name the same page.
SamePage_never(start_normalized, end_normalized) == FALSE

\* "if start_normalized == end_normalized:"
SamePage(start_normalized, end_normalized) == start_normalized = end_normalized

\* A queue entry (current_page, path, depth).
Node(page, path, depth) == [page |-> page, path |-> path, depth |-> depth]

Max(a, b) == IF a >= b THEN a ELSE b

\* The main loop's condition.
LoopCondition ==
    /\ (forward_queue /= <<>> \/ backward_queue /= <<>>)
    /\ forward_depth + backward_depth <= max_depth

\* "if forward_queue and forward_depth <= backward_depth"
ForwardTurn == forward_queue /= <<>> /\ forward_depth <= backward_depth

\* "elif backward_queue"
BackwardTurn == ~ForwardTurn /\ backward_queue /= <<>>

\* The for-loop over the links of a forward expansion.  st carries the
\* forward visited set, parent map and queue, and the path returned, if any.
RECURSIVE ForwardLinks(_, _, _)
ForwardLinks(links, cur, st) ==
    IF links = <<>> \/ st.returned THEN st
    ELSE LET link == Head(links)
             link_normalized == normalize_title(link)
         IN  IF link_normalized \in backward_visited
             THEN [st EXCEPT !.returned = TRUE,
                             !.final_path = cur.path \o <<link>> \o
                                 reconstruct_backward_path(link_normalized, backward_parents),
                             !.meeting_point = link]
             ELSE IF link_normalized \notin st.visited
                  THEN ForwardLinks(Tail(links), cur,
                           [st EXCEPT !.visited = @ \cup {link_normalized},
                                      !.parents = (link_normalized :>
                                          <<normalize_title(cur.page), link>>) @@ @,
                                      !.queue = Append(@, Node(link, cur.path \o <<link>>,
                                                               cur.depth + 1))])
                  ELSE ForwardLinks(Tail(links), cur, st)

\* A variant of the backward for-loop without the "continue" after a
\* rejected meeting candidate: the link falls through to "Add to backward
\* visited".
RECURSIVE BackwardLinks_falling_through(_, _, _)
BackwardLinks_falling_through(links, cur, st) ==
    IF links = <<>> \/ st.returned THEN st
    ELSE LET link == Head(links)
             link_normalized == normalize_title(link)
             final_path == reconstruct_forward_path(link_normalized, forward_parents)
                               \o cur.path
             v == validate_path(EmptyMemo, final_path)
             met == link_normalized \in forward_visited
             checked == IF met
                        THEN [st EXCEPT !.memo = v.memo, !.calls = @ + v.calls,
                                        !.fetched = @ \o FetchedSources(EmptyMemo, final_path),
                                        !.rejected = IF v.valid THEN @ ELSE @ + 1]
                        ELSE st
         IN  IF met /\ v.valid
             THEN [checked EXCEPT !.returned = TRUE, !.final_path = final_path,
                                  !.meeting_point = link]
             ELSE IF link_normalized \notin st.visited
                  THEN BackwardLinks_falling_through(Tail(links), cur,
                           [checked EXCEPT
                               !.visited = @ \cup {link_normalized},
                               !.parents = (link_normalized :>
                                   <<normalize_title(cur.page), link>>) @@ @,
                               !.queue = Append(@, Node(link, <<link>> \o cur.path,
                                                        cur.depth + 1))])
                  ELSE BackwardLinks_falling_through(Tail(links), cur, checked)

\* The for-loop over the backlinks of a backward expansion.  st carries the
\* backward visited set, parent map and queue, the edge memo, the number of
\* validation fetches, and the path returned, if any.
RECURSIVE BackwardLinks(_, _, _)
BackwardLinks(links, cur, st) ==
    IF links = <<>> \/ st.returned THEN st
    ELSE LET link == Head(links)
             link_normalized == normalize_title(link)
         IN  IF link_normalized \in forward_visited
             THEN LET final_path ==
                          reconstruct_forward_path(link_normalized, forward_parents)
                              \o cur.path
                      v == validate_path(EmptyMemo, final_path)
                  IN  IF ~v.valid
                      THEN BackwardLinks(Tail(links), cur,
                               [st EXCEPT !.memo = v.memo, !.calls = @ + v.calls,
                                          !.fetched = @ \o FetchedSources(EmptyMemo, final_path),
                                          !.rejected = @ + 1])
                      ELSE [st EXCEPT !.memo = v.memo, !.calls = @ + v.calls,
                                      !.fetched = @ \o FetchedSources(EmptyMemo, final_path),
                                      !.returned = TRUE, !.final_path = final_path,
                                      !.meeting_point = link]
             ELSE IF link_normalized \notin st.visited
                  THEN BackwardLinks(Tail(links), cur,
                           [st EXCEPT !.visited = @ \cup {link_normalized},
                                      !.parents = (link_normalized :>
                                          <<normalize_title(cur.page), link>>) @@ @,
                                      !.queue = Append(@, Node(link, <<link>> \o cur.path,
                                                               cur.depth + 1))])
                  ELSE BackwardLinks(Tail(links), cur, st)

\* callback('complete', ...)
CompleteEvent(path, checked, meeting_point) ==
    [type |-> "complete", path |-> path,
     pages_checked |-> checked, meeting_point |-> meeting_point]

\* callback('progress', ...)
ProgressEvent(checked) ==
    [type |-> "progress", path |-> None, pages_checked |-> checked, meeting_point |-> None]

\* Bounds of the model.
MaxDepthBound == 2
MaxIdle == 1
MaxProgress == 1

Min(a, b) == IF a <= b THEN a ELSE b

NumProgress == Cardinality({i \in 1..Len(events) : events[i].type = "progress"})

\* The batched progress event that ends a loop iteration: sent when a
\* callback was given and 0.5 s have passed since the last one (20 nodes are
\* never processed between two events in a model this small).
SendProgress(checked) ==
    \/ UNCHANGED events
    \/ /\ callback
       /\ NumProgress < MaxProgress
       /\ events' = Append(events, ProgressEvent(checked))

\* find_path_bidirectional up to its main loop.
BeginSearch ==
    /\ pc = "call"
    /\ edge_cache' = EmptyMemo
    /\ IF SamePage(normalize_title(start), normalize_title(end))
       THEN /\ pc' = "done"
            /\ result' = <<start>>
            /\ UNCHANGED bfsVars
       ELSE /\ pc' = "loop"
            /\ forward_queue' = <<Node(start, <<start>>, 0)>>
            /\ backward_queue' = <<Node(end, <<end>>, 0)>>
            /\ forward_visited' = {normalize_title(start)}
            /\ backward_visited' = {normalize_title(end)}
            /\ forward_parents' = (normalize_title(start) :> <<None, start>>)
            /\ backward_parents' = (normalize_title(end) :> <<None, end>>)
            /\ forward_depth' = 0
            /\ backward_depth' = 0
            /\ pages_checked' = 0
            /\ UNCHANGED result
    /\ UNCHANGED <<graphVars, outerVars, argVars, kVars, max_depth, visited, events,
                   client_calls, validator_fetches,
                   idle_iterations, meeting, rejected>>

\* One iteration of the main loop that expands a forward node.
ExpandForward ==
    /\ pc = "loop"
    /\ LoopCondition
    /\ ForwardTurn
    /\ LET cur == Head(forward_queue)
       IN  /\ forward_depth' = Max(forward_depth, cur.depth)
           /\ pages_checked' = pages_checked + 1
           /\ client_calls' = client_calls + 1
           /\ UNCHANGED validator_fetches
           /\ IF LinksMissing(cur.page)
              THEN /\ forward_queue' = Tail(forward_queue)
                   /\ UNCHANGED <<forward_visited, forward_parents, edge_cache, visited,
                                  pc, result, events, meeting>>
              ELSE \E links \in Orderings(OutLinks(cur.page)) :
                     \E st \in {ForwardLinks(links, cur,
                                   [visited |-> forward_visited,
                                    parents |-> forward_parents,
                                    queue |-> Tail(forward_queue),
                                    returned |-> FALSE, final_path |-> None,
                                    meeting_point |-> None])} :
                         /\ edge_cache' = SeedMemo(edge_cache, cur.page, links)
                         /\ forward_visited' = st.visited
                         /\ forward_parents' = st.parents
                         /\ forward_queue' = st.queue
                         /\ IF st.returned
                            THEN /\ visited' = st.visited \cup backward_visited
                                 /\ events' = IF callback
                                              THEN Append(events, CompleteEvent(st.final_path,
                                                       Cardinality(st.visited)
                                                           + Cardinality(backward_visited),
                                                       st.meeting_point))
                                              ELSE events
                                 /\ result' = st.final_path
                                 /\ meeting' = "forward"
                                 /\ pc' = "done"
                            ELSE /\ SendProgress(pages_checked + 1)
                                 /\ UNCHANGED <<visited, result, meeting, pc>>
    /\ UNCHANGED <<graphVars, outerVars, argVars, kVars, max_depth, backward_queue, backward_visited,
                   backward_parents, backward_depth, idle_iterations, rejected>>

\* One iteration of the main loop that expands a backward node.
ExpandBackward ==
    /\ pc = "loop"
    /\ LoopCondition
    /\ BackwardTurn
    /\ LET cur == Head(backward_queue)
       IN  /\ backward_depth' = Max(backward_depth, cur.depth)
           /\ pages_checked' = pages_checked + 1
           /\ \E links \in Orderings(BackLinks(cur.page)) :
                \E st \in {BackwardLinks(links, cur,
                              [visited |-> backward_visited,
                               parents |-> backward_parents,
                               queue |-> Tail(backward_queue),
                               memo |-> edge_cache, calls |-> 0, fetched |-> <<>>, rejected |-> 0,
                               returned |-> FALSE, final_path |-> None,
                               meeting_point |-> None])} :
                    /\ edge_cache' = st.memo
                    /\ client_calls' = client_calls + 1 + st.calls
                    /\ validator_fetches' = validator_fetches \o st.fetched
                    /\ rejected' = rejected + st.rejected
                    /\ backward_visited' = st.visited
                    /\ backward_parents' = st.parents
                    /\ backward_queue' = st.queue
                    /\ IF st.returned
                       THEN /\ visited' = forward_visited \cup st.visited
                            /\ events' = IF callback
                                         THEN Append(events, CompleteEvent(st.final_path,
                                                  Cardinality(forward_visited)
                                                      + Cardinality(st.visited),
                                                  st.meeting_point))
                                         ELSE events
                            /\ result' = st.final_path
                            /\ meeting' = "backward"
                            /\ pc' = "done"
                       ELSE /\ SendProgress(pages_checked + 1)
                            /\ UNCHANGED <<visited, result, meeting, pc>>
    /\ UNCHANGED <<graphVars, outerVars, argVars, kVars, max_depth, forward_queue, forward_visited,
                   forward_parents, forward_depth, idle_iterations>>

\* One iteration of the main loop in which neither branch is taken: the
\* forward queue is non-empty but forward_depth > backward_depth, and the
\* backward queue is empty.  Nothing is popped; the loop condition still holds.
IdleIteration ==
    /\ pc = "loop"
    /\ LoopCondition
    /\ ~ForwardTurn
    /\ ~BackwardTurn
    /\ idle_iterations' = Min(idle_iterations + 1, MaxIdle)
    /\ SendProgress(pages_checked)
    /\ UNCHANGED <<graphVars, outerVars, finderVars, argVars, bfsVars, kVars, pc, result,
                   client_calls, validator_fetches, meeting, rejected>>

\* The main loop's condition fails: "return None".
ReturnNone ==
    /\ pc = "loop"
    /\ ~LoopCondition
    /\ visited' = forward_visited \cup backward_visited
    /\ result' = None
    /\ pc' = "done"
    /\ UNCHANGED <<graphVars, outerVars, argVars, kVars, max_depth, edge_cache, bfsVars, events,
                   client_calls, validator_fetches, idle_iterations, meeting, rejected>>

----------------------------------------------------------------------------
(* The engine alone: one call of find_path_bidirectional on a fresh finder *)

\* The links the remote graph may hold, the stale backlink entries the API
\* may report, and the pages it may report missing.
CandidateLinks ==
    {<<PA, PB>>, <<PA, PC>>, <<PA, PE>>, <<PB, PD>>,
     <<PC, PE>>, <<PD, PE>>, <<PB, PA>>, <<PD, PB>>}
CandidateStale == {<<PE, PC>>}
CandidateMissing == {PB}

\* The (start, end) arguments of a search: canonical titles, a lower-case
\* start, and two spellings of one page.
SearchArgs == {<<PA, PE>>, <<(<<"a">>), PE>>, <<PA, (<<"a">>)>>}

InitFinder ==
    /\ stale_backlinks \in SUBSET CandidateStale
    /\ max_depth \in 1..MaxDepthBound
    /\ edge_cache = EmptyMemo
    /\ visited = {}
    /\ forward_queue = <<>>
    /\ backward_queue = <<>>
    /\ forward_visited = {}
    /\ backward_visited = {}
    /\ forward_parents = EmptyMemo
    /\ backward_parents = EmptyMemo
    /\ forward_depth = 0
    /\ backward_depth = 0
    /\ pages_checked = 0
    /\ result = None
    /\ events = <<>>
    /\ client_calls = 0
    /\ validator_fetches = <<>>
    /\ idle_iterations = 0
    /\ meeting = "none"
    /\ rejected = 0
    /\ found_paths = <<>>
    /\ shortest_path_length = 0

\* No call on the cache from outside the finder.
NoCall ==
    [op |-> "none", start_page |-> None, end_page |-> None, path |-> None,
     db_ok |-> TRUE, ret |-> None]

NoCacheCall == last_call = NoCall /\ calls = 0

\* normalize_title called by nobody but the finder.
NoNormalize ==
    /\ x_title = None
    /\ y_title = None
    /\ x_key = None
    /\ y_key = None
    /\ x_key_again = None

\* No client method called from outside a search.
NoClientCall ==
    /\ client_fn = "none"
    /\ client_arg = None
    /\ attempt = 0
    /\ attempts = <<>>
    /\ sleeps = <<>>
    /\ client_return = "none"

\* No response has been built.
NoResponse == response = "none"

NoThread == lock_holder = "free" /\ thread_pc = <<>> /\ thread_call = <<>>

NoSide == NoCacheCall /\ NoNormalize /\ NoClientCall /\ NoResponse /\ NoThread

\* A call outside the streaming endpoint.
NoStream ==
    /\ task = "none"
    /\ task_posts = <<>>
    /\ consumed = 0
    /\ keepalives = 0
    /\ stream_pc = "none"
    /\ saved_searches = <<>>

\* An engine called directly: the cache plays no part.
NoCache ==
    /\ lru = <<>>
    /\ store = <<>>
    /\ hit_type = "none"
    /\ composed_path = None
    /\ segment_metadata = None
    /\ NoStream

Init ==
    /\ InitFinder
    /\ NoCache
    /\ NoSide
    /\ wiki_links \in SUBSET CandidateLinks
    /\ missing_pages \in SUBSET CandidateMissing
    /\ failing_pages = {}
    /\ max_paths = 1
    /\ min_diversity = <<3, 10>>
    /\ \E a \in SearchArgs : start = a[1] /\ end = a[2]
    /\ callback = FALSE
    /\ pc = "call"

Next ==
    \/ BeginSearch
    \/ ExpandForward
    \/ ExpandBackward
    \/ IdleIteration
    \/ ReturnNone

Spec == Init /\ [][Next]_vars

----------------------------------------------------------------------------
(* Claims about find_path_bidirectional                                    *)

\* The pages reachable from the pages of S in at most k hops of the remote graph.
RECURSIVE ReachWithin(_, _)
ReachWithin(S, k) ==
    IF k = 0 THEN S
    ELSE ReachWithin(S \cup {e[2] : e \in {x \in wiki_links : x[1] \in S}}, k - 1)

\* Some path of at most l hops leads from the start page to the end page.
PathWithin(l) == PageOf(end) \in ReachWithin({PageOf(start)}, l)

\* Every fetch succeeds and the backlinks are the exact inverse of the links.
CleanGraph == missing_pages = {} /\ stale_backlinks = {}

Returned == pc = "done" /\ result /= None

Hops(path) == Len(path) - 1

NoRepeatedTitle(path) ==
    \A i, j \in 1..Len(path) :
        i /= j => normalize_title(path[i]) /= normalize_title(path[j])

\* C1: on a graph whose fetches all succeed and whose backlinks are the exact
\* inverse of its links, with start /= end, if a path of l <= max_depth hops
\* exists then the path find_path_bidirectional returns has at most l hops.
C1_ShortestPath ==
    (Returned /\ CleanGraph /\ normalize_title(start) /= normalize_title(end))
        => \A l \in 1..max_depth : PathWithin(l) => Hops(result) <= l

\* C2: every iteration of the main loop whose condition holds (a queue is
\* non-empty, the depth cap is not exceeded) expands one node, so the loop
\* makes progress until it returns.
C2_IterationExpands ==
    (pc = "loop" /\ LoopCondition) => (ForwardTurn \/ BackwardTurn)

\* C4: every path find_path_bidirectional returns starts at the start title,
\* ends at the end title (up to normalization) and repeats no normalized title.
C4_EndpointsNoLoops ==
    Returned =>
        /\ normalize_title(result[1]) = normalize_title(start)
        /\ normalize_title(result[Len(result)]) = normalize_title(end)
        /\ NoRepeatedTitle(result)

\* C4 witness: a path of two hops or more was returned from a meeting point
\* found during backward expansion, for a start given in lower case.
C4_Witness ==
    /\ Returned
    /\ meeting = "backward"
    /\ Hops(result) >= 2
    /\ start /= PageOf(start)

\* C5: every returned path has at most max_depth hops.
C5_DepthCap == Returned => Hops(result) <= max_depth

----------------------------------------------------------------------------
(* find_k_paths_bidirectional                                              *)

TitleSet(path) == {normalize_title(path[i]) : i \in 1..Len(path)}

\* "diversity < min_diversity" for Jaccard distance 1 - inter/union and the
\* threshold n/d, in exact arithmetic (union > 0: no path is empty).
TooSimilar(a, b, md) ==
    LET inter == Cardinality(TitleSet(a) \cap TitleSet(b))
        union == Cardinality(TitleSet(a) \cup TitleSet(b))
    IN  (union - inter) * md[2] < md[1] * union

\* A variant of _is_diverse_path: only the most recent admitted path is compared.
is_diverse_path_last_only(new_path, existing_paths, md) ==
    \/ existing_paths = <<>>
    \/ ~TooSimilar(new_path, existing_paths[Len(existing_paths)], md)

\* _is_diverse_path
is_diverse_path(new_path, existing_paths, md) ==
    \/ existing_paths = <<>>
    \/ \A i \in 1..Len(existing_paths) : ~TooSimilar(new_path, existing_paths[i], md)

\* callback('path_found', ...)
PathFoundEvent(path, number, meeting_point) ==
    [type |-> "path_found", path_number |-> number, path |-> path,
     meeting_point |-> meeting_point]

\* The part of both meeting branches after the candidate path is built (and,
\* on the backward side, validated): track the shortest length, admit the
\* path if it is diverse, report it.
AdmitCandidate(st, new_path, link) ==
    LET spl == IF st.spl = 0 THEN Len(new_path) ELSE st.spl
    IN  IF is_diverse_path(new_path, st.found, min_diversity)
        THEN [st EXCEPT !.spl = spl,
                        !.found = Append(@, new_path),
                        !.events = IF callback
                                   THEN Append(@, PathFoundEvent(new_path,
                                                      Len(st.found) + 1, link))
                                   ELSE @]
        ELSE [st EXCEPT !.spl = spl]

\* A variant of Discover that records the parent again for a visited link.
Discover_again(st, link, node, parent_page) ==
    [st EXCEPT !.visited = @ \cup {normalize_title(link)},
               !.parents = (normalize_title(link) :>
                               <<normalize_title(parent_page), link>>) @@ @,
               !.queue = IF normalize_title(link) \in st.visited THEN @ ELSE Append(@, node)]

\* "Continue BFS": the link joins the expanding side unless already visited.
Discover(st, link, node, parent_page) ==
    IF normalize_title(link) \notin st.visited
    THEN [st EXCEPT !.visited = @ \cup {normalize_title(link)},
                    !.parents = (normalize_title(link) :>
                                    <<normalize_title(parent_page), link>>) @@ @,
                    !.queue = Append(@, node)]
    ELSE st

\* The for-loop over the links of a forward expansion.
RECURSIVE KForwardLinks(_, _, _)
KForwardLinks(links, cur, st) ==
    IF links = <<>> THEN st
    ELSE LET link == Head(links)
             link_normalized == normalize_title(link)
             new_path == cur.path \o <<link>> \o
                             reconstruct_backward_path(link_normalized, backward_parents)
             met == IF link_normalized \in backward_visited
                    THEN AdmitCandidate(st, new_path, link)
                    ELSE st
         IN  KForwardLinks(Tail(links), cur,
                 Discover(met, link,
                          Node(link, cur.path \o <<link>>, cur.depth + 1), cur.page))

\* The for-loop over the backlinks of a backward expansion.
RECURSIVE KBackwardLinks(_, _, _)
KBackwardLinks(links, cur, st) ==
    IF links = <<>> THEN st
    ELSE LET link == Head(links)
             link_normalized == normalize_title(link)
             new_path == reconstruct_forward_path(link_normalized, forward_parents)
                             \o cur.path
             v == validate_path(EmptyMemo, new_path)
             node == Node(link, <<link>> \o cur.path, cur.depth + 1)
         IN  IF link_normalized \in forward_visited
             THEN LET checked == [st EXCEPT !.memo = v.memo, !.calls = @ + v.calls,
                                            !.fetched = @ \o FetchedSources(EmptyMemo, new_path)]
                  IN  IF ~v.valid
                      THEN KBackwardLinks(Tail(links), cur,
                               [checked EXCEPT !.rejected = @ + 1])
                      ELSE KBackwardLinks(Tail(links), cur,
                               Discover(AdmitCandidate(checked, new_path, link),
                                        link, node, cur.page))
             ELSE KBackwardLinks(Tail(links), cur, Discover(st, link, node, cur.page))

\* The while condition and the two breaks that open the loop body.
KLoopCondition ==
    /\ (forward_queue /= <<>> \/ backward_queue /= <<>>)
    /\ Len(found_paths) < max_paths
    /\ ~(shortest_path_length /= 0
            /\ forward_depth + backward_depth > shortest_path_length + 2)
    /\ ~(forward_depth + backward_depth > max_depth)

\* Stable insertion of a path into a list sorted by length.
InsertByLen(sorted, path) ==
    LET k == Cardinality({i \in 1..Len(sorted) : Len(sorted[i]) <= Len(path)})
    IN  SubSeq(sorted, 1, k) \o <<path>> \o SubSeq(sorted, k + 1, Len(sorted))

\* found_paths.sort(key=len)
RECURSIVE SortByLen(_)
SortByLen(paths) ==
    IF paths = <<>> THEN <<>>
    ELSE InsertByLen(SortByLen(SubSeq(paths, 1, Len(paths) - 1)), paths[Len(paths)])

\* find_k_paths_bidirectional up to its main loop.
KBeginSearch ==
    /\ pc = "kcall"
    /\ edge_cache' = EmptyMemo
    /\ IF SamePage(normalize_title(start), normalize_title(end))
       THEN /\ pc' = "done"
            /\ result' = <<(<<start>>)>>
            /\ UNCHANGED bfsVars
       ELSE /\ pc' = "kloop"
            /\ forward_queue' = <<Node(start, <<start>>, 0)>>
            /\ backward_queue' = <<Node(end, <<end>>, 0)>>
            /\ forward_visited' = {normalize_title(start)}
            /\ backward_visited' = {normalize_title(end)}
            /\ forward_parents' = (normalize_title(start) :> <<None, start>>)
            /\ backward_parents' = (normalize_title(end) :> <<None, end>>)
            /\ forward_depth' = 0
            /\ backward_depth' = 0
            /\ pages_checked' = 0
            /\ UNCHANGED result
    /\ found_paths' = <<>>
    /\ shortest_path_length' = 0
    /\ UNCHANGED <<graphVars, outerVars, argVars, max_paths, min_diversity, max_depth, visited,
                   events, client_calls, validator_fetches, idle_iterations, meeting, rejected>>

\* One iteration of the main loop that expands a forward node.
KExpandForward ==
    /\ pc = "kloop"
    /\ KLoopCondition
    /\ ForwardTurn
    /\ LET cur == Head(forward_queue)
       IN  /\ forward_depth' = Max(forward_depth, cur.depth)
           /\ pages_checked' = pages_checked + 1
           /\ client_calls' = client_calls + 1
           /\ UNCHANGED validator_fetches
           /\ IF LinksMissing(cur.page)
              THEN /\ forward_queue' = Tail(forward_queue)
                   /\ UNCHANGED <<forward_visited, forward_parents, edge_cache, events,
                                  found_paths, shortest_path_length, meeting>>
              ELSE \E links \in Orderings(OutLinks(cur.page)) :
                     \E st \in {KForwardLinks(links, cur,
                                   [visited |-> forward_visited,
                                    parents |-> forward_parents,
                                    queue |-> Tail(forward_queue),
                                    found |-> found_paths,
                                    spl |-> shortest_path_length,
                                    events |-> events])} :
                         /\ edge_cache' = SeedMemo(edge_cache, cur.page, links)
                         /\ forward_visited' = st.visited
                         /\ forward_parents' = st.parents
                         /\ forward_queue' = st.queue
                         /\ found_paths' = st.found
                         /\ shortest_path_length' = st.spl
                         /\ meeting' = IF Len(st.found) > Len(found_paths)
                                       THEN "forward" ELSE meeting
                         /\ \/ events' = st.events
                            \/ /\ callback
                               /\ NumProgress < MaxProgress
                               /\ events' = Append(st.events,
                                                   ProgressEvent(pages_checked + 1))
    /\ UNCHANGED <<graphVars, outerVars, argVars, max_paths, min_diversity, max_depth, visited,
                   backward_queue, backward_visited, backward_parents, backward_depth,
                   idle_iterations, rejected, pc, result>>

\* One iteration of the main loop that expands a backward node.
KExpandBackward ==
    /\ pc = "kloop"
    /\ KLoopCondition
    /\ BackwardTurn
    /\ LET cur == Head(backward_queue)
       IN  /\ backward_depth' = Max(backward_depth, cur.depth)
           /\ pages_checked' = pages_checked + 1
           /\ \E links \in Orderings(BackLinks(cur.page)) :
                \E st \in {KBackwardLinks(links, cur,
                              [visited |-> backward_visited,
                               parents |-> backward_parents,
                               queue |-> Tail(backward_queue),
                               found |-> found_paths,
                               spl |-> shortest_path_length,
                               events |-> events,
                               memo |-> edge_cache, calls |-> 0, fetched |-> <<>>,
                               rejected |-> 0])} :
                    /\ edge_cache' = st.memo
                    /\ client_calls' = client_calls + 1 + st.calls
                    /\ validator_fetches' = validator_fetches \o st.fetched
                    /\ rejected' = rejected + st.rejected
                    /\ backward_visited' = st.visited
                    /\ backward_parents' = st.parents
                    /\ backward_queue' = st.queue
                    /\ found_paths' = st.found
                    /\ shortest_path_length' = st.spl
                    /\ meeting' = IF Len(st.found) > Len(found_paths)
                                  THEN "backward" ELSE meeting
                    /\ \/ events' = st.events
                       \/ /\ callback
                          /\ NumProgress < MaxProgress
                          /\ events' = Append(st.events, ProgressEvent(pages_checked + 1))
    /\ UNCHANGED <<graphVars, outerVars, argVars, max_paths, min_diversity, max_depth, visited,
                   forward_queue, forward_visited, forward_parents, forward_depth,
                   idle_iterations, pc, result>>

\* One iteration of the main loop in which neither branch is taken.
KIdleIteration ==
    /\ pc = "kloop"
    /\ KLoopCondition
    /\ ~ForwardTurn
    /\ ~BackwardTurn
    /\ idle_iterations' = Min(idle_iterations + 1, MaxIdle)
    /\ SendProgress(pages_checked)
    /\ UNCHANGED <<graphVars, outerVars, finderVars, argVars, bfsVars, kVars, pc, result,
                   client_calls, validator_fetches, meeting, rejected>>

\* The loop ends (while condition or a break): sort and return.
KReturn ==
    /\ pc = "kloop"
    /\ ~KLoopCondition
    /\ found_paths' = SortByLen(found_paths)
    /\ visited' = forward_visited \cup backward_visited
    /\ result' = IF found_paths /= <<>> THEN SortByLen(found_paths) ELSE None
    /\ pc' = "done"
    /\ UNCHANGED <<graphVars, outerVars, argVars, max_paths, min_diversity, shortest_path_length,
                   max_depth, edge_cache, bfsVars, events, client_calls, validator_fetches,
                   idle_iterations, meeting, rejected>>

----------------------------------------------------------------------------
(* The K-diverse engine alone: one call of find_k_paths_bidirectional      *)

MaxPathsBound == 2

KCandidateLinks ==
    {<<PA, PE>>, <<PA, PB>>, <<PA, PC>>, <<PB, PE>>, <<PC, PE>>, <<PE, PC>>}

\* (start, end): two pages, and two spellings of one page.
KSearchArgs == {<<PA, PE>>, <<PA, (<<"a">>)>>}

\* min_diversity: the default 0.3, and 0.5.
Diversities == {<<3, 10>>, <<1, 2>>}

InitK ==
    /\ InitFinder
    /\ NoCache
    /\ NoSide
    /\ wiki_links \in SUBSET KCandidateLinks
    /\ missing_pages = {}
    /\ failing_pages = {}
    /\ \E a \in KSearchArgs : start = a[1] /\ end = a[2]
    /\ max_paths \in 1..MaxPathsBound
    /\ min_diversity \in Diversities
    /\ callback = FALSE
    /\ pc = "kcall"

NextK ==
    \/ KBeginSearch
    \/ KExpandForward
    \/ KExpandBackward
    \/ KIdleIteration
    \/ KReturn

SpecK == InitK /\ [][NextK]_vars

KEndpoints(path) ==
    /\ normalize_title(path[1]) = normalize_title(start)
    /\ normalize_title(path[Len(path)]) = normalize_title(end)

Admitted == {found_paths[i] : i \in 1..Len(found_paths)}

\* C6: every path admitted by the K-diverse search runs from start to end
\* and contains no repeated normalized title, also for paths found after the
\* first meeting point.
C6_KPathsLoopFree ==
    \A path \in Admitted : KEndpoints(path) /\ NoRepeatedTitle(path)

\* C7: after find_k_paths_bidirectional returns, len(found_paths) <= max_paths.
C7_AtMostK ==
    (pc = "done") => Len(found_paths) <= max_paths

\* C8: at every point of a K-diverse search, and in its returned list, every
\* two distinct admitted paths have Jaccard distance over their sets of
\* normalized titles of at least min_diversity.
C8_PairwiseDiverse ==
    \A i, j \in 1..Len(found_paths) :
        i /= j => ~TooSimilar(found_paths[i], found_paths[j], min_diversity)

\* A returned list of three paths: the third was admitted against two others.
C8_Witness ==
    /\ pc = "done"
    /\ result = found_paths
    /\ Len(found_paths) >= 3

----------------------------------------------------------------------------
(* PathCache (app/cache.py) over the path_segments table of the store      *)

\* self.max_size, scaled down
CacheMaxSize == 2

\* _make_key
make_key(start_page, end_page) ==
    <<normalize_title(start_page), normalize_title(end_page)>>

\* The position of a key in the OrderedDict, 0 if absent.
KeyIndex(cache, key) ==
    IF \E i \in 1..Len(cache) : cache[i].key = key
    THEN CHOOSE i \in 1..Len(cache) : cache[i].key = key
    ELSE 0

\* OrderedDict.move_to_end
move_to_end(cache, key) ==
    LET i == KeyIndex(cache, key)
    IN  SubSeq(cache, 1, i - 1) \o SubSeq(cache, i + 1, Len(cache)) \o <<cache[i]>>

\* INSERT INTO path_segments: use_count defaults to 1.
SegmentRow(start_page, end_page, segment_path) ==
    [start_page |-> start_page, end_page |-> end_page,
     segment_path |-> segment_path, use_count |-> 1]

\* WHERE start_page = ? AND end_page = ?: both titles compared as stored.
Matching(rows, start_page, end_page) ==
    {i \in 1..Len(rows) :
        rows[i].start_page = start_page /\ rows[i].end_page = end_page}

\* cursor.fetchone(): the matching row of lowest rowid, 0 for None.
FetchOne(rows, start_page, end_page) ==
    LET found == Matching(rows, start_page, end_page)
    IN  IF found = {} THEN 0 ELSE CHOOSE i \in found : \A j \in found : i <= j

\* A variant of BumpUseCount whose UPDATE leaves use_count alone.
BumpUseCount_last_used_only(rows, ids) == rows

\* SET use_count = use_count + 1 on the rows of the given rowids.
BumpUseCount(rows, ids) ==
    [i \in 1..Len(rows) |->
        IF i \in ids THEN [rows[i] EXCEPT !.use_count = @ + 1] ELSE rows[i]]

\* database.get_path_segment, its result: the segment of the matching row.
get_path_segment(rows, start_page, end_page) ==
    IF FetchOne(rows, start_page, end_page) /= 0
    THEN rows[FetchOne(rows, start_page, end_page)].segment_path
    ELSE None

\* database.get_path_segment, its effect: every matching row is counted as
\* used.
get_path_segment_update(rows, start_page, end_page) ==
    BumpUseCount(rows, Matching(rows, start_page, end_page))

\* A variant of save_path_segment that inserts without looking first.
save_path_segment_unchecked(rows, start_page, end_page, segment_path) ==
    Append(rows, SegmentRow(start_page, end_page, segment_path))

\* database.save_path_segment: an existing row is counted as used and keeps
\* its segment, otherwise a row is inserted.
save_path_segment(rows, start_page, end_page, segment_path) ==
    IF FetchOne(rows, start_page, end_page) /= 0
    THEN BumpUseCount(rows, {FetchOne(rows, start_page, end_page)})
    ELSE Append(rows, SegmentRow(start_page, end_page, segment_path))

\* A variant of _put_internal that overwrites the path of a key it holds.
put_internal_replace(cache, rows, start_page, end_page, segment_path, update_db) ==
    LET key == make_key(start_page, end_page)
        added == Append(SelectSeq(cache, LAMBDA entry : entry.key /= key),
                        [key |-> key, segment |-> segment_path])
    IN  [lru |-> IF Len(added) > CacheMaxSize THEN Tail(added) ELSE added,
         store |-> IF update_db
                   THEN save_path_segment(rows, start_page, end_page, segment_path)
                   ELSE rows]

\* A variant of _put_internal that evicts the entry used last before the
\* insert instead of the first of the OrderedDict.
put_internal_newest_out(cache, rows, start_page, end_page, segment_path, update_db) ==
    LET key == make_key(start_page, end_page)
        added == Append(cache, [key |-> key, segment |-> segment_path])
    IN  [lru |-> IF KeyIndex(cache, key) /= 0 THEN move_to_end(cache, key)
                 ELSE IF Len(added) > CacheMaxSize
                 THEN SubSeq(cache, 1, Len(cache) - 1) \o <<added[Len(added)]>>
                 ELSE added,
         store |-> IF update_db
                   THEN save_path_segment(rows, start_page, end_page, segment_path)
                   ELSE rows]

\* _put_internal: [lru, store]
put_internal(cache, rows, start_page, end_page, segment_path, update_db) ==
    LET key == make_key(start_page, end_page)
        added == Append(cache, [key |-> key, segment |-> segment_path])
    IN  [lru |-> IF KeyIndex(cache, key) /= 0 THEN move_to_end(cache, key)
                 ELSE IF Len(added) > CacheMaxSize THEN Tail(added)
                 ELSE added,
         store |-> IF update_db
                   THEN save_path_segment(rows, start_page, end_page, segment_path)
                   ELSE rows]

\* get: [value, lru, store].  A hit refreshes the entry; a miss asks the
\* store with the titles as passed and, when the store has the row, loads it.
cache_get(cache, rows, start_page, end_page) ==
    LET key == make_key(start_page, end_page)
        segment == get_path_segment(rows, start_page, end_page)
    IN  IF KeyIndex(cache, key) /= 0
        THEN [value |-> cache[KeyIndex(cache, key)].segment,
              lru |-> move_to_end(cache, key),
              store |-> rows]
        ELSE IF segment /= None
        THEN [value |-> segment,
              lru |-> put_internal(cache, rows, start_page, end_page,
                                   segment, FALSE).lru,
              store |-> get_path_segment_update(rows, start_page, end_page)]
        ELSE [value |-> None, lru |-> cache, store |-> rows]

\* get_connected_nodes(page, direction='forward'): end titles of the keys in
\* memory whose start is page, and end_page of the rows whose start_page is
\* page.
get_connected_nodes(cache, rows, page) ==
    {cache[i].key[2] : i \in {j \in 1..Len(cache) : cache[j].key[1] = page}}
        \cup {rows[i].end_page : i \in {j \in 1..Len(rows) : rows[j].start_page = page}}

\* max_hops=3 at the orchestrator's call of compose_path
ComposeMaxHops == 3

HopNode(page, path, hops, metadata) ==
    [page |-> page, path |-> path, hops |-> hops, metadata |-> metadata]

\* An entry of the segment metadata ('cached_at' / 'discovered_at' left out).
SegmentSource(from_page, to_page, source) ==
    [from_page |-> from_page, to_page |-> to_page, source |-> source]

\* compose_path's BFS over segments: the set of outcomes [path, metadata, lru, store]
\* over the orders in which list(connected) may enumerate a set.
\* A variant of JoinSegment that keeps the segment's first node.
JoinSegment_whole(path, segment) == path \o segment

\* "new_path = path + segment[1:]": the segment's first node is the path's
\* last.
JoinSegment(path, segment) == path \o Tail(segment)

RECURSIVE ComposeQueue(_, _, _, _, _)
RECURSIVE ComposeLinks(_, _, _, _, _, _, _)

\* "while queue:"
ComposeQueue(queue, seen, cache, rows, end_page) ==
    IF queue = <<>>
    THEN {[path |-> None, metadata |-> None, lru |-> cache, store |-> rows]}
    ELSE LET cur == Head(queue)
         IN  IF cur.hops >= ComposeMaxHops
             THEN ComposeQueue(Tail(queue), seen, cache, rows, end_page)
             ELSE UNION {ComposeLinks(connected, cur, Tail(queue), seen, cache,
                                      rows, end_page) :
                         connected \in Orderings(get_connected_nodes(cache, rows,
                                                                    cur.page))}

\* "for next_page in connected:"
ComposeLinks(connected, cur, queue, seen, cache, rows, end_page) ==
    IF connected = <<>> THEN ComposeQueue(queue, seen, cache, rows, end_page)
    ELSE LET next_page == Head(connected)
             got == cache_get(cache, rows, cur.page, next_page)
             new_path == JoinSegment(cur.path, got.value)
             new_metadata ==
                 Append(cur.metadata, SegmentSource(cur.page, next_page, "cache"))
         IN  IF next_page \in seen
             THEN ComposeLinks(Tail(connected), cur, queue, seen, cache, rows,
                               end_page)
             ELSE IF got.value = None
             THEN ComposeLinks(Tail(connected), cur, queue, seen, got.lru,
                               got.store, end_page)
             ELSE IF next_page = end_page
             THEN {[path |-> new_path, metadata |-> new_metadata,
                    lru |-> got.lru, store |-> got.store]}
             ELSE ComposeLinks(Tail(connected), cur,
                               Append(queue, HopNode(next_page, new_path,
                                                     cur.hops + 1, new_metadata)),
                               seen \cup {next_page}, got.lru, got.store,
                               end_page)

\* compose_path
compose_path(cache, rows, start_page, end_page) ==
    LET direct == cache_get(cache, rows, start_page, end_page)
    IN  IF direct.value /= None
        THEN {[path |-> direct.value,
               metadata |-> <<SegmentSource(start_page, end_page, "cache")>>,
               lru |-> direct.lru, store |-> direct.store]}
        ELSE ComposeQueue(<<HopNode(start_page, <<start_page>>, 0, <<>>)>>,
                          {start_page}, direct.lru, direct.store, end_page)

----------------------------------------------------------------------------
(* find_path_with_cache                                                    *)

\* callback('cache_hit', ...)
CacheHitEvent(hit, path) == [type |-> "cache_hit", hit_type |-> hit, path |-> path]

\* callback('cache_miss', ...)
CacheMissEvent == [type |-> "cache_miss"]

\* "if callback: callback(...)"
Emit(evs, event) == IF callback THEN Append(evs, event) ELSE evs

\* Variants of the two tests that return a cached path.
DirectHit_unchecked(cached_path) == TRUE
ComposedAccepted_unchecked(is_valid) == TRUE

\* "if cached_path:"
DirectHit(cached_path) == cached_path /= None

\* "if is_valid:"
ComposedAccepted(is_valid) == is_valid

\* find_path_with_cache up to the validation of a composed candidate.
CacheLookup ==
    /\ pc = "ocall"
    /\ LET start_normalized == normalize_title(start)
           end_normalized == normalize_title(end)
           got == cache_get(lru, store, start_normalized, end_normalized)
       IN  IF SamePage(start_normalized, end_normalized)
           THEN /\ result' = <<start>>
                /\ hit_type' = "same_page"
                /\ pc' = "done"
                /\ UNCHANGED <<lru, store, events, composed_path, segment_metadata>>
           ELSE IF DirectHit(got.value)
           THEN /\ lru' = got.lru
                /\ store' = got.store
                /\ result' = got.value
                /\ hit_type' = "direct"
                /\ events' = Emit(events, CacheHitEvent("direct", got.value))
                /\ pc' = "done"
                /\ UNCHANGED <<composed_path, segment_metadata>>
           ELSE \E composed \in compose_path(got.lru, got.store,
                                             start_normalized, end_normalized) :
                  /\ lru' = composed.lru
                  /\ store' = composed.store
                  /\ composed_path' = composed.path
                  /\ segment_metadata' = composed.metadata
                  /\ IF composed.path /= None
                     THEN /\ pc' = "ovalidate"
                          /\ UNCHANGED <<events, hit_type, result>>
                     ELSE /\ events' = Emit(events, CacheMissEvent)
                          /\ hit_type' = "miss"
                          /\ pc' = "call"
                          /\ UNCHANGED result
    /\ UNCHANGED <<graphVars, sideVars, finderVars, argVars, bfsVars, kVars, streamVars,
                   client_calls, validator_fetches, idle_iterations, meeting, rejected>>

\* find_path_with_cache from "await self._validate_path(composed_path)" to
\* the return of a composed hit or the call of the engine.
ValidateComposed ==
    /\ pc = "ovalidate"
    /\ LET checked == validate_path(edge_cache, composed_path)
       IN  /\ edge_cache' = checked.memo
           /\ client_calls' = client_calls + checked.calls
           /\ validator_fetches' = validator_fetches \o FetchedSources(edge_cache, composed_path)
           /\ IF ComposedAccepted(checked.valid)
              THEN /\ result' = composed_path
                   /\ hit_type' = "composed"
                   /\ events' = Emit(events, CacheHitEvent("composed", composed_path))
                   /\ pc' = "done"
              ELSE /\ events' = Emit(events, CacheMissEvent)
                   /\ hit_type' = "miss"
                   /\ pc' = "call"
                   /\ UNCHANGED result
    /\ UNCHANGED <<graphVars, sideVars, argVars, bfsVars, kVars, cacheVars, streamVars,
                   composed_path, segment_metadata, max_depth, visited, idle_iterations, meeting,
                   rejected>>

----------------------------------------------------------------------------
(* The orchestrator: one call of find_path_with_cache                      *)

OCandidateLinks == {<<PA, PB>>, <<PB, PC>>, <<PC, PE>>, <<PA, PE>>}

\* Segments as cache_path stores them: keyed by normalized end titles.
OSegments ==
    {[key |-> make_key(PA, PC), segment |-> <<PA, PB, PC>>],
     [key |-> make_key(PC, PE), segment |-> <<PC, PE>>],
     [key |-> make_key(PA, PE), segment |-> <<PA, PC, PE>>]}

\* Rows of the store: one whose titles are already normalized (a search
\* typed in lower case), one with canonical titles.
ORows ==
    <<SegmentRow(<<"a">>, <<"c">>, <<(<<"a">>), PB, PC>>),
      SegmentRow(PC, PE, <<PC, PE>>)>>

InitOrch ==
    /\ InitFinder
    /\ stale_backlinks = {}
    /\ max_depth = MaxDepthBound
    /\ wiki_links \in SUBSET OCandidateLinks
    /\ missing_pages = {}
    /\ failing_pages = {}
    /\ max_paths = 1
    /\ min_diversity = <<3, 10>>
    /\ \E a \in SearchArgs : start = a[1] /\ end = a[2]
    /\ callback \in BOOLEAN
    /\ \E S \in SUBSET OSegments :
         /\ Cardinality(S) <= CacheMaxSize
         /\ lru \in Orderings(S)
    /\ store \in {SelectSeq(ORows, LAMBDA r : r \in K) : K \in SUBSET Range(ORows)}
    /\ hit_type = "none"
    /\ composed_path = None
    /\ segment_metadata = None
    /\ NoStream
    /\ NoSide
    /\ pc = "ocall"

NextOrch ==
    \/ CacheLookup
    \/ ValidateComposed
    \/ BeginSearch
    \/ ExpandForward
    \/ ExpandBackward
    \/ IdleIteration
    \/ ReturnNone

SpecOrch == InitOrch /\ [][NextOrch]_vars

\* What Cache.get(norm(start), norm(end)) returns in the current state.
DirectLookup ==
    cache_get(lru, store, normalize_title(start), normalize_title(end)).value

\* C9: in find_path_with_cache, when norm(start) /= norm(end) and
\* Cache.get(norm(start), norm(end)) returns a path, that path is returned
\* with hit type direct, a cache_hit{direct} event goes to the callback, and
\* no Wikipedia client call and no BFS step is issued.
C9_DirectHit ==
    /\ [][(/\ pc = "ocall"
           /\ normalize_title(start) /= normalize_title(end)
           /\ DirectLookup /= None)
          => (/\ pc' = "done"
              /\ hit_type' = "direct"
              /\ result' = DirectLookup)]_vars
    /\ [](hit_type = "direct"
          => /\ pc = "done"
             /\ result /= None
             /\ events = Emit(<<>>, CacheHitEvent("direct", result))
             /\ client_calls = 0
             /\ pages_checked = 0
             /\ forward_queue = <<>> /\ backward_queue = <<>>
             /\ forward_visited = {} /\ backward_visited = {})

\* A direct hit for a start typed in lower case, reported to a callback.
C9_Witness ==
    /\ hit_type = "direct"
    /\ callback
    /\ start /= PageOf(start)
    /\ events = <<CacheHitEvent("direct", result)>>
    /\ result = <<PA, PC, PE>>

\* C10: a composed path is returned (hit type composed) only if
\* _validate_path accepted it; when validation rejects it, nothing is
\* removed from the cache or the store, a cache_miss event is emitted and the
\* BFS engine is run, whose result is returned with hit type miss.
C10_ComposedHandling ==
    /\ [](hit_type = "composed"
          => /\ pc = "done"
             /\ result = composed_path
             /\ validate_path(EmptyMemo, result).valid)
    /\ [][(pc = "ovalidate" /\ ~validate_path(edge_cache, composed_path).valid)
          => (/\ pc' = "call"
              /\ hit_type' = "miss"
              /\ lru' = lru
              /\ store' = store
              /\ events' = Emit(events, CacheMissEvent))]_vars
    /\ []((hit_type = "miss" /\ pc = "done" /\ result /= None)
          => meeting \in {"forward", "backward"})

\* A composed candidate was rejected and the engine then found a path.
C10_Witness ==
    /\ pc = "done"
    /\ hit_type = "miss"
    /\ composed_path /= None
    /\ result /= None
    /\ callback
    /\ events[1] = CacheMissEvent

----------------------------------------------------------------------------
(* PathCache.cache_path                                                    *)

\* extract_segments_from_path: every sub-path of 2 to 4 nodes, as
\* <<start_page, end_page, segment>>, in the order of the two loops.
RECURSIVE SegmentsFrom(_, _, _)
SegmentsFrom(path, i, j) ==
    IF i > Len(path) THEN <<>>
    ELSE IF j > Min(i + 3, Len(path)) THEN SegmentsFrom(path, i + 1, i + 2)
    ELSE <<(<<path[i], path[j], SubSeq(path, i, j)>>)>> \o SegmentsFrom(path, i, j + 1)

\* A variant of extract_segments_from_path that yields the whole path only.
extract_segments_from_path_whole(path) ==
    <<(<<path[1], path[Len(path)], path>>)>>

extract_segments_from_path(path) == SegmentsFrom(path, 1, 2)

\* bulk_put's loop over _put_internal(update_db=False)
RECURSIVE PutAll(_, _)
PutAll(cache, segments) ==
    IF segments = <<>> THEN cache
    ELSE PutAll(put_internal(cache, <<>>, Head(segments)[1], Head(segments)[2],
                             Head(segments)[3], FALSE).lru,
                Tail(segments))

\* database.save_path_segments_bulk: one transaction
RECURSIVE save_path_segments_bulk(_, _)
save_path_segments_bulk(rows, segments) ==
    IF segments = <<>> THEN rows
    ELSE save_path_segments_bulk(
             save_path_segment(rows, Head(segments)[1], Head(segments)[2],
                               Head(segments)[3]),
             Tail(segments))

\* bulk_put: [lru, store]; db_ok is whether the transaction commits (its
\* failure is logged and swallowed).
bulk_put(cache, rows, segments, db_ok) ==
    [lru |-> PutAll(cache, segments),
     store |-> IF db_ok /\ segments /= <<>>
               THEN save_path_segments_bulk(rows, segments)
               ELSE rows]

\* cache_path
cache_path(cache, rows, path, db_ok) ==
    IF Len(path) < 2 THEN [lru |-> cache, store |-> rows]
    ELSE bulk_put(cache, rows, extract_segments_from_path(path), db_ok)

\* "for p in result['paths']: cache.cache_path(p)"
RECURSIVE CacheAll(_, _, _, _)
CacheAll(cache, rows, paths, db_ok) ==
    IF paths = <<>> THEN [lru |-> cache, store |-> rows]
    ELSE LET c == cache_path(cache, rows, Head(paths), db_ok)
         IN  CacheAll(c.lru, c.store, Tail(paths), db_ok)

----------------------------------------------------------------------------
(* find_k_paths_with_cache                                                 *)

\* find_k_paths_with_cache up to its call of find_k_paths_bidirectional.
KCacheLookup ==
    /\ pc = "kocall"
    /\ \E composed \in compose_path(lru, store, normalize_title(start),
                                    normalize_title(end)) :
         LET checked == validate_path(edge_cache, composed.path)
             hit == composed.path /= None /\ checked.valid
         IN  /\ lru' = composed.lru
             /\ store' = composed.store
             /\ composed_path' = composed.path
             /\ segment_metadata' = composed.metadata
             /\ edge_cache' = IF composed.path /= None THEN checked.memo
                              ELSE edge_cache
             /\ client_calls' = IF composed.path /= None
                                THEN client_calls + checked.calls
                                ELSE client_calls
             /\ validator_fetches' = validator_fetches \o FetchedSources(edge_cache, composed.path)
             /\ hit_type' = IF hit THEN "composed" ELSE "miss"
             /\ events' = IF hit
                          THEN Emit(events, CacheHitEvent("composed", composed.path))
                          ELSE events
             /\ IF hit /\ max_paths = 1
                THEN /\ result' = <<composed.path>>
                     /\ pc' = "done"
                ELSE /\ pc' = "kcall"
                     /\ UNCHANGED result
    /\ UNCHANGED <<graphVars, sideVars, argVars, bfsVars, kVars, streamVars, max_depth,
                   visited, idle_iterations, meeting, rejected>>

----------------------------------------------------------------------------
(* find_path_stream: run_search (the producer) and generate_events         *)

\* event_queue.put_nowait(None)
Sentinel == [type |-> "sentinel"]

\* The 'error' events run_search puts.
NoPathError == [type |-> "error", message |-> "No path found"]
ExceptionError == [type |-> "error", message |-> "exception"]

\* The 'complete' event run_search puts after a K-diverse search.
KCompleteEvent(paths) ==
    [type |-> "complete", path |-> paths[1], pages_checked |-> Cardinality(visited),
     paths_found |-> Len(paths)]

\* A callback that signals the end of the stream before it puts the
\* 'complete' event.
RECURSIVE CallbackPuts_sentinel_first(_)
CallbackPuts_sentinel_first(evs) ==
    IF evs = <<>> THEN <<>>
    ELSE (IF Head(evs).type = "complete" THEN <<Sentinel, Head(evs)>>
          ELSE <<Head(evs)>>) \o CallbackPuts_sentinel_first(Tail(evs))

\* A variant of callback that also signals the end of the stream after a
\* 'path_found' event.
RECURSIVE CallbackPuts_ending_each_path(_)
CallbackPuts_ending_each_path(evs) ==
    IF evs = <<>> THEN <<>>
    ELSE (IF Head(evs).type \in {"complete", "path_found"} THEN <<Head(evs), Sentinel>>
          ELSE <<Head(evs)>>) \o CallbackPuts_ending_each_path(Tail(evs))

\* callback: every event is put on the queue, 'complete' is followed by the
\* sentinel.
RECURSIVE CallbackPuts(_)
CallbackPuts(evs) ==
    IF evs = <<>> THEN <<>>
    ELSE (IF Head(evs).type = "complete" THEN <<Head(evs), Sentinel>>
          ELSE <<Head(evs)>>) \o CallbackPuts(Tail(evs))

\* Everything put on event_queue so far, in order: run_search puts its own
\* items only after the search it awaits has returned.
event_queue == CallbackPuts(events) \o task_posts

\* callback's bookkeeping of result['paths'].
RECURSIVE ResultPaths(_, _)
ResultPaths(evs, paths) ==
    IF evs = <<>> THEN paths
    ELSE ResultPaths(Tail(evs),
             IF Head(evs).type = "complete" THEN <<Head(evs).path>>
             ELSE IF Head(evs).type = "path_found" THEN Append(paths, Head(evs).path)
             ELSE paths)

\* run_search after the awaited search has returned.
TaskReturn ==
    /\ task = "running"
    /\ pc = "done"
    /\ task' = "finished"
    /\ task_posts' =
         IF max_paths > 1
         THEN (IF result /= None THEN <<KCompleteEvent(result), Sentinel>>
               ELSE <<NoPathError, Sentinel>>)
         ELSE (IF result = None THEN <<NoPathError, Sentinel>> ELSE <<>>)
    /\ UNCHANGED <<graphVars, sideVars, finderVars, argVars, bfsVars, kVars, cacheVars, orchVars,
                   ctlVars, consumed, keepalives, stream_pc, saved_searches>>

\* run_search's "except Exception": the cache's read of the store raised.
TaskException ==
    /\ task = "running"
    /\ pc \in {"ocall", "kocall"}
    /\ pc' = "failed"
    /\ task' = "finished"
    /\ task_posts' = <<ExceptionError, Sentinel>>
    /\ UNCHANGED <<graphVars, sideVars, finderVars, argVars, bfsVars, kVars, cacheVars, orchVars,
                   result, events, client_calls, validator_fetches, idle_iterations, meeting,
                   rejected,
                   consumed, keepalives, stream_pc, saved_searches>>

MaxKeepalive == 1

\* The consumer loop takes an item: the sentinel ends the loop, an event is
\* yielded.
ConsumeEvent ==
    /\ stream_pc = "consume"
    /\ consumed < Len(event_queue)
    /\ consumed' = consumed + 1
    /\ stream_pc' = IF event_queue[consumed + 1] = Sentinel THEN "await" ELSE "consume"
    /\ UNCHANGED <<graphVars, sideVars, finderVars, argVars, bfsVars, kVars, cacheVars, orchVars,
                   ctlVars, task, task_posts, keepalives, saved_searches>>

\* The consumer loop times out on an empty queue and yields a keepalive.
Keepalive ==
    /\ stream_pc = "consume"
    /\ consumed = Len(event_queue)
    /\ keepalives' = Min(keepalives + 1, MaxKeepalive)
    /\ UNCHANGED <<graphVars, sideVars, finderVars, argVars, bfsVars, kVars, cacheVars, orchVars,
                   ctlVars, task, task_posts, consumed, stream_pc, saved_searches>>

\* A variant of SearchRecord that records every search as a success.
SearchRecord_as_success(success, path) == [success |-> TRUE, path |-> path]

\* The row database.save_search writes (terms, counters and times left out).
SearchRecord(success, path) == [success |-> success, path |-> path]

\* min(paths, key=len): the first of the shortest paths.
RECURSIVE ShortestOf(_)
ShortestOf(paths) ==
    IF Len(paths) = 1 THEN Head(paths)
    ELSE LET rest == ShortestOf(Tail(paths))
         IN  IF Len(Head(paths)) <= Len(rest) THEN Head(paths) ELSE rest

\* After the loop: await search_task, save the search, cache the paths of a
\* success, yield 'done'.
FinishStream ==
    /\ stream_pc = "await"
    /\ task = "finished"
    /\ \E db_ok \in BOOLEAN :
         LET cached == CacheAll(lru, store, ResultPaths(events, <<>>), db_ok)
         IN  /\ lru' = cached.lru
             /\ store' = cached.store
    /\ saved_searches' =
         Append(saved_searches,
                IF ResultPaths(events, <<>>) /= <<>>
                THEN SearchRecord(TRUE, ShortestOf(ResultPaths(events, <<>>)))
                ELSE SearchRecord(FALSE, <<>>))
    /\ stream_pc' = "closed"
    /\ UNCHANGED <<graphVars, sideVars, finderVars, argVars, bfsVars, kVars, orchVars, ctlVars,
                   task, task_posts, consumed, keepalives>>

\* The client disconnects while generate_events is suspended at one of its
\* awaits (event_queue.get, search_task): CancelledError is raised there, the
\* handler cancels the search task, awaits it and re-raises, so nothing after
\* the try statement runs.  A running task, cancelled at its own await, stops
\* where it is; awaiting a finished task does not suspend.
CancelAtAwait ==
    /\ \/ stream_pc = "consume"
       \/ stream_pc = "await" /\ task = "running"
    /\ stream_pc' = "cancelled"
    /\ IF task = "running"
       THEN task' = "cancelled" /\ pc' = "cancelled"
       ELSE UNCHANGED <<task, pc>>
    /\ UNCHANGED <<graphVars, sideVars, finderVars, argVars, bfsVars, kVars, cacheVars,
                   orchVars, result, events, client_calls, validator_fetches, idle_iterations,
                   meeting,
                   rejected, task_posts, consumed, keepalives, saved_searches>>

\* The client disconnects while generate_events is suspended at a yield of
\* its loop (an event or a keepalive is being sent): no CancelledError
\* reaches the generator, which is closed by GeneratorExit at the yield or
\* never resumed; neither "except Exception" nor "except
\* asyncio.CancelledError" catches that, so the handler does not run.
AbandonAtYield ==
    /\ stream_pc = "consume"
    /\ task = "running"
    /\ \/ /\ consumed < Len(event_queue)
          /\ event_queue[consumed + 1] /= Sentinel
          /\ consumed' = consumed + 1
          /\ UNCHANGED keepalives
       \/ /\ consumed = Len(event_queue)
          /\ keepalives' = Min(keepalives + 1, MaxKeepalive)
          /\ UNCHANGED consumed
    /\ stream_pc' = "abandoned"
    /\ UNCHANGED <<graphVars, sideVars, finderVars, argVars, bfsVars, kVars, cacheVars,
                   orchVars, ctlVars, task, task_posts, saved_searches>>

----------------------------------------------------------------------------
(* The streaming endpoint, from the resolution of both terms on            *)

SCandidateLinks == {<<PA, PB>>, <<PA, PC>>, <<PC, PE>>}

\* The cache before the request: empty, holding the whole path, or holding
\* its two halves.
SCaches ==
    {<<>>,
     <<[key |-> make_key(PA, PE), segment |-> <<PA, PC, PE>>]>>,
     <<[key |-> make_key(PA, PC), segment |-> <<PA, PC>>],
       [key |-> make_key(PC, PE), segment |-> <<PC, PE>>]>>}

\* The resolved terms: two pages, or the same page twice.
StreamArgs == {<<PA, PE>>, <<PA, PA>>}

InitStream ==
    /\ InitFinder
    /\ stale_backlinks = {}
    /\ max_depth = MaxDepthBound
    /\ wiki_links \in SUBSET SCandidateLinks
    /\ missing_pages = {}
    /\ failing_pages = {}
    /\ max_paths \in 1..MaxPathsBound
    /\ min_diversity = <<3, 10>>
    /\ \E a \in StreamArgs : start = a[1] /\ end = a[2]
    /\ callback = TRUE
    /\ lru \in SCaches
    /\ store = <<>>
    /\ hit_type = "none"
    /\ composed_path = None
    /\ segment_metadata = None
    /\ task = "running"
    /\ task_posts = <<>>
    /\ consumed = 0
    /\ keepalives = 0
    /\ stream_pc = "consume"
    /\ saved_searches = <<>>
    /\ NoSide
    /\ pc = IF max_paths > 1 THEN "kocall" ELSE "ocall"

NextStream ==
    \/ CacheLookup
    \/ ValidateComposed
    \/ BeginSearch
    \/ ExpandForward
    \/ ExpandBackward
    \/ IdleIteration
    \/ ReturnNone
    \/ KCacheLookup
    \/ KBeginSearch
    \/ KExpandForward
    \/ KExpandBackward
    \/ KIdleIteration
    \/ KReturn
    \/ TaskReturn
    \/ TaskException
    \/ ConsumeEvent
    \/ Keepalive
    \/ FinishStream
    \/ CancelAtAwait
    \/ AbandonAtYield

SpecStream == InitStream /\ [][NextStream]_vars

\* C3: whatever the outcome of the search task, the producer enqueues a
\* terminal event followed by the sentinel, so the consumer loop exits and
\* the done event is emitted.  As a property of finite runs: once the search
\* task has finished and the consumer has taken everything that was put on
\* the queue, the consumer has left its loop.
C3_EndSignalled ==
    (task = "finished" /\ consumed = Len(event_queue)) => stream_pc /= "consume"

----------------------------------------------------------------------------
(* PathCache under its callers: cache_path, put, get, compose_path and     *)
(* the warm-up of a new process, called one at a time (every public        *)
(* method holds self._lock, and the endpoints call them without awaiting)  *)

WarmLimit == 1000

\* All orders of the elements of S.
RECURSIVE RowOrders(_)
RowOrders(S) ==
    IF S = {} THEN {<<>>}
    ELSE UNION {{<<x>> \o o : o \in RowOrders(S \ {x})} : x \in S}

\* The rows warm_cache_from_db selects, as bulk_put-style triples.
RowSegments(rows) ==
    [i \in 1..Len(rows) |->
        <<rows[i].start_page, rows[i].end_page, rows[i].segment_path>>]

\* warm_cache_from_db on a new PathCache: the LRU after loading the rows in
\* the order of "last_used DESC, use_count DESC" (timestamps are not
\* modelled: any order of the rows).
warm_cache_from_db(rows) ==
    {PutAll(<<>>, SubSeq(o, 1, Min(WarmLimit, Len(o)))) :
        o \in RowOrders(Range(RowSegments(rows)))}

\* The runs explored: at most MaxCalls calls on the cache.
MaxCalls == 4

Called == calls < MaxCalls /\ calls' = calls + 1

Call(op, start_page, end_page, path, db_ok, ret) ==
    [op |-> op, start_page |-> start_page, end_page |-> end_page,
     path |-> path, db_ok |-> db_ok, ret |-> ret]

\* Paths a search may hand to cache_path.
CachePaths == {<<PA, PB, PC>>, <<PC, PB, PE>>, <<PA, PC>>, <<(<<"a">>), (<<"c">>)>>}

\* Segments a caller may hand to put: normalized key, path as found.
PutArgs ==
    {<<(<<"a">>), (<<"c">>), <<PA, PC>>>>, <<(<<"a">>), (<<"c">>), <<PA, PB, PC>>>>}

\* Title pairs asked of get and compose_path.
GetArgs ==
    {<<PA, PC>>, <<(<<"a">>), (<<"c">>)>>, <<PC, PE>>, <<(<<"c">>), (<<"e">>)>>}

ComposeArgs == {<<(<<"a">>), (<<"e">>)>>, <<(<<"a">>), (<<"c">>)>>}

cacheFrame ==
    <<graphVars, finderVars, argVars, bfsVars, kVars, orchVars, streamVars, normVars,
      retryVars, threadVars, endpointVars, ctlVars>>

\* cache.cache_path(path)
CachePath ==
    /\ pc = "cache"
    /\ Called
    /\ \E path \in CachePaths, db_ok \in BOOLEAN :
         \E c \in {cache_path(lru, store, path, db_ok)} :
           /\ lru' = c.lru
           /\ store' = c.store
           /\ last_call' = Call("cache_path", path[1], path[Len(path)], path,
                                db_ok, None)
    /\ UNCHANGED cacheFrame

\* cache.put(start_page, end_page, segment_path)
Put ==
    /\ pc = "cache"
    /\ Called
    /\ \E a \in PutArgs, db_ok \in BOOLEAN :
         \E c \in {put_internal(lru, store, a[1], a[2], a[3], db_ok)} :
           /\ lru' = c.lru
           /\ store' = c.store
           /\ last_call' = Call("put", a[1], a[2], a[3], db_ok, None)
    /\ UNCHANGED cacheFrame

\* cache.get(start_page, end_page)
Get ==
    /\ pc = "cache"
    /\ Called
    /\ \E a \in GetArgs :
         \E got \in {cache_get(lru, store, a[1], a[2])} :
           /\ lru' = got.lru
           /\ store' = got.store
           /\ last_call' = Call("get", a[1], a[2], None, TRUE, got.value)
    /\ UNCHANGED cacheFrame

\* cache.compose_path(start_page, end_page, max_hops=3)
Compose ==
    /\ pc = "cache"
    /\ Called
    /\ \E a \in ComposeArgs :
         \E composed \in compose_path(lru, store, a[1], a[2]) :
           /\ lru' = composed.lru
           /\ store' = composed.store
           /\ last_call' = Call("compose_path", a[1], a[2], None, TRUE,
                                composed.path)
    /\ UNCHANGED cacheFrame

\* A new process: get_cache builds an empty PathCache and warms it from the
\* store; a failure of the warm-up query is logged and leaves it empty.
Restart ==
    /\ pc = "cache"
    /\ Called
    /\ \E db_ok \in BOOLEAN :
         /\ lru' \in IF db_ok THEN warm_cache_from_db(store) ELSE {<<>>}
         /\ last_call' = Call("restart", None, None, None, db_ok, None)
    /\ UNCHANGED <<store, cacheFrame>>

\* No search is running: a finder as constructed, the cache empty.
NoSearch ==
    /\ InitFinder
    /\ stale_backlinks = {}
    /\ max_depth = MaxDepthBound
    /\ wiki_links = {}
    /\ missing_pages = {}
    /\ failing_pages = {}
    /\ max_paths = 1
    /\ min_diversity = <<3, 10>>
    /\ start = PA
    /\ end = PE
    /\ callback = FALSE
    /\ NoCache

InitCache ==
    /\ NoSearch
    /\ NoSide
    /\ pc = "cache"

NextCache ==
    \/ CachePath
    \/ Put
    \/ Get
    \/ Compose
    \/ Restart

SpecCache == InitCache /\ [][NextCache]_vars

----------------------------------------------------------------------------
(* Claims about PathCache                                                  *)

\* The last call was compose_path and it returned a path.
Composed == last_call.op = "compose_path" /\ last_call.ret /= None

\* C11: every path returned by compose_path contains no repeated
\* normalized title, whatever segments are cached (multi-hop segments whose
\* interior nodes are not segment endpoints included).
C11_ComposedNoRepeat == Composed => NoRepeatedTitle(last_call.ret)

\* The (start, end) keys of the segments in either tier of the cache.
CachedKeys(cache, rows) ==
    {cache[i].key : i \in 1..Len(cache)}
        \cup {make_key(rows[i].start_page, rows[i].end_page) : i \in 1..Len(rows)}

\* This step is a call of compose_path that returns a path.
ComposeReturns ==
    /\ calls' = calls + 1
    /\ last_call'.op = "compose_path"
    /\ last_call'.ret /= None

\* C12: every path p returned by compose_path(s, e) has norm(p[0]) = s and
\* norm(p[-1]) = e, and every adjacent pair (p[i], p[i+1]) is the (start, end)
\* key of some segment present in the cache at the time of the call.
C12_ComposedFromCachedPairs ==
    [][ComposeReturns =>
        LET p == last_call'.ret
        IN  /\ normalize_title(p[1]) = last_call'.start_page
            /\ normalize_title(p[Len(p)]) = last_call'.end_page
            /\ \A i \in 1..(Len(p) - 1) :
                 make_key(p[i], p[i + 1]) \in CachedKeys(lru, store)]_vars

\* The segments in either tier of the cache, by key.
CachedSegments(cache, rows) ==
    {cache[i] : i \in 1..Len(cache)}
        \cup {[key |-> make_key(rows[i].start_page, rows[i].end_page),
               segment |-> rows[i].segment_path] : i \in 1..Len(rows)}

\* p from its i-th node on is a chain of at most hops of the segments: each
\* piece p[i..j] is, after its first node, a segment kept under the key of
\* its two ends.
RECURSIVE ChainOf(_, _, _, _)
ChainOf(p, i, segments, hops) ==
    \/ i = Len(p)
    \/ /\ hops > 0
       /\ \E j \in (i + 1)..Len(p) :
            /\ \E seg \in segments :
                 /\ seg.key = make_key(p[i], p[j])
                 /\ Tail(seg.segment) = SubSeq(p, i + 1, j)
            /\ ChainOf(p, j, segments, hops - 1)

\* C12, amended: every path p returned by compose_path(s, e) has
\* norm(p[0]) = s and norm(p[-1]) = e and is a chain of at most max_hops
\* segments present in the cache at the time of the call; the pairs inside a
\* multi-hop segment need not be keys of the cache.
C12_ComposedFromCachedSegments ==
    [][ComposeReturns =>
        LET p == last_call'.ret
        IN  /\ normalize_title(p[1]) = last_call'.start_page
            /\ normalize_title(p[Len(p)]) = last_call'.end_page
            /\ ChainOf(p, 1, CachedSegments(lru, store), ComposeMaxHops)]_vars

\* compose_path returned a path through a multi-hop segment whose inner
\* pairs are in neither tier.
C12_Witness ==
    /\ Composed
    /\ Len(last_call.ret) > 2
    /\ \E i \in 1..(Len(last_call.ret) - 1) :
         make_key(last_call.ret[i], last_call.ret[i + 1]) \notin CachedKeys(lru, store)

\* The segments a call hands to _put_internal: put's own, or those bulk_put
\* gets from cache_path.
StoredBy(call) ==
    IF call.op = "put" THEN {<<call.start_page, call.end_page, call.path>>}
    ELSE IF call.op = "cache_path" THEN Range(extract_segments_from_path(call.path))
    ELSE {}

\* (s, e, p) with norm(p[0]) = s and norm(p[-1]) = e
Consistent(seg) ==
    /\ normalize_title(seg[3][1]) = seg[1]
    /\ normalize_title(seg[3][Len(seg[3])]) = seg[2]

\* C13: for any segment (s, e, p) stored through put or bulk_put with
\* norm(p[0]) = s and norm(p[-1]) = e, the next get(s, e) returns a path equal
\* to p element for element.
C13_RoundTrip ==
    [][(calls' = calls + 1 /\ last_call'.op = "get")
        => \A seg \in StoredBy(last_call) :
             (/\ Consistent(seg)
              /\ seg[1] = last_call'.start_page
              /\ seg[2] = last_call'.end_page)
             => last_call'.ret = seg[3]]_vars

\* C13, amended: the next get(s, e) returns p if the LRU held no path under
\* the key when (s, e, p) was stored; if it held one, that path stays and is
\* what get returns.
C13_RoundTripUnlessHeld ==
    [][(calls' = calls + 1 /\ last_call'.op \in {"put", "cache_path"})
        => \A seg \in StoredBy(last_call') :
             Consistent(seg)
             => LET held == KeyIndex(lru, make_key(seg[1], seg[2]))
                IN  cache_get(lru', store', seg[1], seg[2]).value
                        = IF held /= 0 THEN lru[held].segment ELSE seg[3]]_vars

\* put(s, e, p) was called while the LRU held another path under (s, e).
C13_Witness ==
    /\ last_call.op = "put"
    /\ last_call.path = <<PA, PC>>
    /\ LET held == KeyIndex(lru, make_key(last_call.start_page, last_call.end_page))
       IN  held /= 0 /\ lru[held].segment = <<PA, PB, PC>>

\* C14: the cache normalizes titles before keying in both tiers: a segment
\* stored under titles (S, E), in the LRU or only in the store, is returned by
\* get(S', E') whenever norm(S') = norm(S) and norm(E') = norm(E).
C14_NormalizedInBothTiers ==
    [][(calls' = calls + 1 /\ last_call'.op = "get")
        => (make_key(last_call'.start_page, last_call'.end_page)
                \in CachedKeys(lru, store)
            => last_call'.ret /= None)]_vars

\* The (start_page, end_page) pairs of the sub-segments of a path.
SubSegmentKeys(path) ==
    {<<seg[1], seg[2]>> : seg \in Range(extract_segments_from_path(path))}

\* What a repeated cache_path(path) may change: use_count, by exactly one, on
\* the row of each sub-segment; the rows and their paths stay, and so do the
\* entries of the LRU when the batch fits in it.
OnlyUseCountBumped(path) ==
    /\ Len(store') = Len(store)
    /\ \A i \in 1..Len(store) :
         store'[i] = IF <<store[i].start_page, store[i].end_page>> \in SubSegmentKeys(path)
                     THEN [store[i] EXCEPT !.use_count = @ + 1]
                     ELSE store[i]
    /\ \A k \in SubSegmentKeys(path) : Matching(store, k[1], k[2]) /= {}
    /\ Len(extract_segments_from_path(path)) <= CacheMaxSize
           => Range(lru') = Range(lru)

\* This step is cache_path called again with the path of the call before it.
CachedAgain ==
    /\ calls' = calls + 1
    /\ last_call.op = "cache_path"
    /\ last_call'.op = "cache_path"
    /\ last_call'.path = last_call.path

StoreCall ==
    /\ calls' = calls + 1
    /\ last_call'.op \in {"put", "cache_path"}

----------------------------------------------------------------------------
(* normalize_title on arbitrary titles                                     *)

MaxTitleLen == 3

\* The characters titles are drawn from: a letter in both cases, underscore
\* and space.
TitleChars == {"A", "a", "_", " "}

Titles == UNION {[1..n -> TitleChars] : n \in 0..MaxTitleLen}

\* x and y differ only in letter case and in underscore versus space.
SameButCaseAndUnderscore(x, y) ==
    /\ Len(x) = Len(y)
    /\ \A i \in 1..Len(x) :
         LowerChar(IF x[i] = "_" THEN " " ELSE x[i])
             = LowerChar(IF y[i] = "_" THEN " " ELSE y[i])

normFrame ==
    <<graphVars, finderVars, argVars, bfsVars, kVars, cacheVars, orchVars,
      streamVars, last_call, calls, retryVars, threadVars, endpointVars, result, events,
      client_calls, validator_fetches,
      idle_iterations, meeting, rejected>>

\* normalize_title applied to both titles.
Normalize ==
    /\ pc = "normalize"
    /\ x_key' = normalize_title(x_title)
    /\ y_key' = normalize_title(y_title)
    /\ pc' = "renormalize"
    /\ UNCHANGED <<x_title, y_title, x_key_again, normFrame>>

\* normalize_title applied to a key it produced (find_path_with_cache
\* normalizes its arguments, PathCache._make_key normalizes them again).
NormalizeAgain ==
    /\ pc = "renormalize"
    /\ x_key_again' = normalize_title(x_key)
    /\ pc' = "normalized"
    /\ UNCHANGED <<x_title, y_title, x_key, y_key, normFrame>>

InitNorm ==
    /\ NoSearch
    /\ NoCacheCall
    /\ NoClientCall
    /\ NoResponse
    /\ NoThread
    /\ x_title \in Titles
    /\ y_title \in {y \in Titles : SameButCaseAndUnderscore(x_title, y)}
    /\ x_key = None
    /\ y_key = None
    /\ x_key_again = None
    /\ pc = "normalize"

NextNorm ==
    \/ Normalize
    \/ NormalizeAgain

SpecNorm == InitNorm /\ [][NextNorm]_vars

\* C17: normalize_title is idempotent, normalize_title(normalize_title(x)) =
\* normalize_title(x) for every title x over letters of both cases,
\* underscore and space; and two titles that differ only in letter case and
\* in underscore versus space normalize to the same key.
C17_NormalizeIdempotent ==
    /\ pc = "normalized" => x_key_again = x_key
    /\ pc \in {"renormalize", "normalized"} => x_key = y_key

----------------------------------------------------------------------------
(* The Wikipedia client's methods under @retry_on_failure                  *)

max_retries == 3

\* backoff_factor, in milliseconds
backoff_factor == 500

\* The methods decorated with @retry_on_failure(max_retries=3,
\* backoff_factor=0.5).
ClientMethods ==
    {"get_wikipedia_links", "get_wikipedia_backlinks", "resolve_wikipedia_title"}

\* How "await self.client.get(...)", "response.raise_for_status()" and
\* "response.json()" may end: a response, an httpx exception, or a body that
\* is not JSON.
RequestOutcomes ==
    {"ok", "ConnectError", "ReadError", "ReadTimeout", "WriteTimeout",
     "PoolTimeout", "HTTPStatusError", "ValueError"}

\* httpx.HTTPError and its subclasses.
HTTPError ==
    {"ConnectError", "ReadError", "ReadTimeout", "WriteTimeout", "PoolTimeout",
     "HTTPStatusError"}

\* What the wrapper's first except clause catches: httpx.TimeoutException,
\* httpx.ConnectError, httpx.ReadError.
Retried == {"ConnectError", "ReadTimeout", "WriteTimeout", "PoolTimeout", "ReadError"}

\* The body of a decorated method on one request: the value it returns or
\* the exception it lets through.  "except httpx.HTTPError" (and, after it,
\* "except Exception") returns the empty result.
ClientBody(fn, outcome) ==
    IF outcome = "ok" THEN [raised |-> "none", value |-> "result"]
    ELSE IF outcome \in HTTPError
    THEN [raised |-> "none",
          value |-> IF fn = "resolve_wikipedia_title" THEN "None" ELSE "[]"]
    ELSE [raised |-> "none",
          value |-> IF fn = "resolve_wikipedia_title" THEN "None" ELSE "[]"]

\* The titles the methods are called with.
ClientArgs == Pages \cup {normalize_title(p) : p \in Pages}

retryFrame ==
    <<graphVars, finderVars, argVars, bfsVars, kVars, cacheVars, orchVars,
      streamVars, last_call, calls, normVars, endpointVars, threadVars, result, events,
      client_calls, validator_fetches,
      idle_iterations, meeting, rejected>>

\* One iteration of the wrapper's "for attempt in range(max_retries)": the
\* method body is awaited; its value is returned, or its exception is
\* retried after a sleep or raised.
Attempt ==
    /\ pc = "client_call"
    /\ attempt < max_retries
    /\ \E outcome \in RequestOutcomes :
         LET r == ClientBody(client_fn, outcome)
         IN  /\ attempts' = Append(attempts, outcome)
             /\ IF r.raised = "none"
                THEN /\ client_return' = r.value
                     /\ pc' = "client_done"
                     /\ UNCHANGED <<attempt, sleeps>>
                ELSE IF r.raised \in Retried /\ attempt < max_retries - 1
                THEN /\ sleeps' = Append(sleeps, backoff_factor * (2 ^ attempt))
                     /\ attempt' = attempt + 1
                     /\ UNCHANGED <<pc, client_return>>
                ELSE /\ client_return' = "raised"
                     /\ pc' = "client_done"
                     /\ UNCHANGED <<attempt, sleeps>>
    /\ UNCHANGED <<client_fn, client_arg, retryFrame>>

InitRetry ==
    /\ NoSearch
    /\ NoCacheCall
    /\ NoNormalize
    /\ NoResponse
    /\ NoThread
    /\ client_fn \in ClientMethods
    /\ client_arg \in ClientArgs
    /\ attempt = 0
    /\ attempts = <<>>
    /\ sleeps = <<>>
    /\ client_return = "none"
    /\ pc = "client_call"

NextRetry == Attempt

SpecRetry == InitRetry /\ [][NextRetry]_vars

\* Connection errors and the read, write and pool timeouts.
Transient == {"ConnectError", "ReadTimeout", "WriteTimeout", "PoolTimeout"}

\* C18: when a call of links, backlinks or resolve fails with a transient
\* transport failure the request is attempted again, up to three attempts in
\* all with a sleep of 0.5 * 2^attempt s between them, before an empty result
\* or None is surfaced; an HTTP status failure is not retried.
C18_RetryPolicy ==
    pc = "client_done" =>
        /\ attempts[Len(attempts)] \in Transient => Len(attempts) = max_retries
        /\ \A i \in 1..(Len(attempts) - 1) : attempts[i] \in Transient
        /\ sleeps = [i \in 1..(Len(attempts) - 1) |-> backoff_factor * (2 ^ (i - 1))]

----------------------------------------------------------------------------
(* Claims about the stream's cancellation and its event queue              *)

\* The client has disconnected.
Disconnected == stream_pc \in {"cancelled", "abandoned"}

\* No step but the one that closes a stream that ran to its end adds a
\* segment to either tier or saves a search record, and none is saved for a
\* search whose client disconnected.
WritesOnlyAtTheEnd ==
    /\ [][stream_pc' /= "closed"
            => /\ CachedSegments(lru', store') \subseteq CachedSegments(lru, store)
               /\ saved_searches' = saved_searches]_vars
    /\ [][Disconnected => Disconnected']_vars
    /\ [](Disconnected => saved_searches = <<>>)

\* C19: if the stream consumer is cancelled (client disconnect) at any point
\* of a running search, the search task is cancelled and awaited, and
\* afterwards no segment has been written to the cache or store and no
\* search-history record saved for that search, even if path_found events
\* had already been produced.
C19_CancellationWritesNothing ==
    /\ [](Disconnected => task /= "running")
    /\ WritesOnlyAtTheEnd

\* The events a drop is never permitted for.
Terminal(item) == item /= Sentinel /\ item.type \in {"complete", "path_found", "error"}

\* The positions of the queue's history at which the consumer has taken a
\* sentinel.
SentinelsTaken == {i \in 1..consumed : event_queue[i] = Sentinel}

\* C20: every complete, path_found and error event the producer pushes is
\* delivered to the consumer, in push order, before the sentinel is consumed:
\* the queue only ever grows at its tail (put_nowait on the unbounded queue
\* never fails and never displaces an item), the consumer takes items from
\* its head one at a time, and once it has taken a sentinel every terminal
\* event ever pushed lies before that sentinel.
C20_TerminalEventsDelivered ==
    /\ [][/\ Len(event_queue') >= Len(event_queue)
          /\ SubSeq(event_queue', 1, Len(event_queue)) = event_queue
          /\ consumed' \in {consumed, consumed + 1}
          /\ consumed' <= Len(event_queue')]_vars
    /\ [](\A i \in SentinelsTaken :
            \A j \in 1..Len(event_queue) : Terminal(event_queue[j]) => j < i)

\* The consumer has taken the sentinel after a path_found and a complete
\* event were delivered to it in that order.
C20_Witness ==
    /\ SentinelsTaken /= {}
    /\ \E i, j \in 1..consumed :
         /\ i < j
         /\ event_queue[i].type = "path_found"
         /\ event_queue[j].type = "complete"

----------------------------------------------------------------------------
(* Claims about what the orchestrator returns and writes back              *)

\* bfs_segments: one entry for each edge of the path the engine returned.
BfsSegments(path) ==
    [i \in 1..(Len(path) - 1) |-> SegmentSource(path[i], path[i + 1], "bfs")]

\* The cache_info find_path_with_cache returns with its path.  The dictionary
\* has a 'segment_sources' key on a composed hit and after the engine ran
\* only.
cache_info ==
    [cache_hit_type |-> hit_type,
     is_cached |-> hit_type \in {"direct", "composed"},
     has_segment_sources |-> hit_type \in {"composed", "miss"},
     segment_sources |->
         IF hit_type = "composed" THEN segment_metadata
         ELSE IF hit_type = "miss" /\ result /= None THEN BfsSegments(result)
         ELSE <<>>]

\* sources has exactly one entry for each edge of path, in order.
OnePerEdge(path, sources) ==
    /\ Len(sources) = Len(path) - 1
    /\ \A i \in 1..Len(sources) :
         /\ normalize_title(sources[i].from_page) = normalize_title(path[i])
         /\ normalize_title(sources[i].to_page) = normalize_title(path[i + 1])
         /\ sources[i].source \in {"cache", "bfs"}

\* find_path_with_cache has returned a path of at least one hop.
OrchReturned == pc = "done" /\ result /= None /\ Len(result) >= 2

\* C21: whenever find_path_with_cache returns a path of n >= 1 hops, by direct
\* hit, composed hit or BFS, it also returns a provenance list with exactly
\* one entry per edge (p[i], p[i+1]) of that path, each with source cache or
\* bfs; all bfs for a BFS result and all cache for a composed result.
C21_PerEdgeProvenance ==
    OrchReturned =>
        /\ cache_info.has_segment_sources
        /\ OnePerEdge(result, cache_info.segment_sources)
        /\ hit_type = "miss" =>
             \A i \in 1..Len(cache_info.segment_sources) :
                 cache_info.segment_sources[i].source = "bfs"
        /\ hit_type = "composed" =>
             \A i \in 1..Len(cache_info.segment_sources) :
                 cache_info.segment_sources[i].source = "cache"

----------------------------------------------------------------------------
(* find_path_endpoint: one request of the non-streaming endpoint           *)

\* The endpoint leaves the "async with asyncio.timeout(...)" block with the
\* search's result: it saves the search and, for a path, writes every
\* returned path back to the cache.  save_search raises when the database
\* stays locked, and nothing after it runs; a failed transaction of bulk_put
\* is logged and swallowed.
Respond ==
    /\ pc = "done"
    /\ response = "none"
    /\ LET paths == IF max_paths > 1 THEN result ELSE None
           path == IF max_paths > 1
                   THEN (IF result /= None THEN result[1] ELSE None)
                   ELSE result
           returned == IF paths /= None THEN paths ELSE <<path>>
       IN  \E save_ok, db_ok \in BOOLEAN :
             IF ~save_ok
             THEN /\ response' = "error"
                  /\ UNCHANGED <<saved_searches, lru, store, last_call>>
             ELSE IF path /= None
             THEN \E cached \in {CacheAll(lru, store, returned, db_ok)} :
                    /\ saved_searches' = Append(saved_searches, SearchRecord(TRUE, path))
                    /\ lru' = cached.lru
                    /\ store' = cached.store
                    /\ last_call' = Call("cache_path", None, None,
                                         returned[Len(returned)], db_ok, None)
                    /\ response' = "success"
             ELSE /\ saved_searches' = Append(saved_searches, SearchRecord(FALSE, <<>>))
                  /\ response' = "no_path"
                  /\ UNCHANGED <<lru, store, last_call>>
    /\ pc' = "responded"
    /\ UNCHANGED <<graphVars, finderVars, argVars, bfsVars, kVars, orchVars, task,
                   task_posts, consumed, keepalives, stream_pc, calls, normVars,
                   retryVars, threadVars, result, events, client_calls, validator_fetches,
                   idle_iterations,
                   meeting, rejected>>

\* The places at which the request is suspended inside the timeout block:
\* the validation of a cached candidate, the engines' remote calls, and the
\* closing of the finder's client.
Suspended == pc \in {"ovalidate", "call", "loop", "kcall", "kloop", "done"}

\* The timeout block's deadline passes: the search is cancelled where it is
\* suspended and "except asyncio.TimeoutError" saves a failed search (a
\* failure to save it is logged) and returns the error response.
Timeout ==
    /\ response = "none"
    /\ Suspended
    /\ \E save_ok \in BOOLEAN :
         saved_searches' = IF save_ok
                           THEN Append(saved_searches, SearchRecord(FALSE, <<>>))
                           ELSE saved_searches
    /\ response' = "timeout"
    /\ pc' = "cancelled"
    /\ UNCHANGED <<graphVars, finderVars, argVars, bfsVars, kVars, cacheVars, orchVars,
                   task, task_posts, consumed, keepalives, stream_pc, last_call,
                   calls, normVars, retryVars, threadVars, result, events, client_calls,
                   validator_fetches,
                   idle_iterations, meeting, rejected>>

ECandidateLinks ==
    {<<PA, PB>>, <<PB, PC>>, <<PC, PD>>, <<PD, PE>>, <<PA, PC>>, <<PC, PE>>,
     <<PA, PE>>}

\* The cache before the request: empty, holding a path of the request,
\* holding two segments that compose to one, or holding the first of them.
ECaches ==
    {<<>>,
     <<[key |-> make_key(PA, PE), segment |-> <<PA, PC, PE>>]>>,
     <<[key |-> make_key(PA, PC), segment |-> <<PA, PB, PC>>],
       [key |-> make_key(PC, PE), segment |-> <<PC, PD, PE>>]>>,
     <<[key |-> make_key(PA, PC), segment |-> <<PA, PB, PC>>]>>}

\* The store before the request: empty, or the row of an earlier search
\* between two pages of the request.
EStores == {<<>>, <<SegmentRow(PA, PC, <<PA, PC>>)>>}

\* The terms as typed: canonical, or the start in lower case.
EndpointArgs == {<<PA, PE>>, <<(<<"a">>), PE>>}

InitEndpoint ==
    /\ InitFinder
    /\ stale_backlinks = {}
    /\ max_depth = MaxDepthBound
    /\ wiki_links \in SUBSET ECandidateLinks
    /\ missing_pages = {}
    /\ failing_pages = {}
    /\ max_paths \in 1..MaxPathsBound
    /\ min_diversity = <<3, 10>>
    /\ \E a \in EndpointArgs : start = a[1] /\ end = a[2]
    /\ callback = FALSE
    /\ lru \in ECaches
    /\ store \in EStores
    /\ hit_type = "none"
    /\ composed_path = None
    /\ segment_metadata = None
    /\ NoStream
    /\ NoSide
    /\ pc = IF max_paths > 1 THEN "kocall" ELSE "ocall"

NextEndpoint ==
    \/ CacheLookup
    \/ ValidateComposed
    \/ BeginSearch
    \/ ExpandForward
    \/ ExpandBackward
    \/ IdleIteration
    \/ ReturnNone
    \/ KCacheLookup
    \/ KBeginSearch
    \/ KExpandForward
    \/ KExpandBackward
    \/ KIdleIteration
    \/ KReturn
    \/ Respond
    \/ Timeout

SpecEndpoint == InitEndpoint /\ [][NextEndpoint]_vars

\* The contiguous sub-paths of path with 2 to 4 nodes, each as
\* <<start_page, end_page, segment>>.
SubPaths(path) ==
    LET ends == {ij \in (1..Len(path)) \X (1..Len(path)) : ij[2] - ij[1] \in 1..3}
    IN  {<<path[ij[1]], path[ij[2]], SubSeq(path, ij[1], ij[2])>> : ij \in ends}

\* The paths the endpoint's successful search returned.
ReturnedPaths == IF max_paths > 1 THEN result ELSE <<result>>

\* The sub-paths of 2 to 4 nodes of the returned paths.
ReturnedSubPaths == UNION {SubPaths(p) : p \in Range(ReturnedPaths)}

\* This step is the write-back of a successful search.
WrittenBack == response = "none" /\ response' = "success"

\* What the cache answers for the ends of a segment.
Lookup(cache, rows, seg) ==
    cache_get(cache, rows, normalize_title(seg[1]), normalize_title(seg[2])).value

\* The entry of the memory tier for a segment.
Entry(seg) == [key |-> make_key(seg[1], seg[2]), segment |-> seg[3]]

\* The keys the memory tier holds.
HeldKeys(cache) == {cache[i].key : i \in 1..Len(cache)}

C23_CachedPathReturnedFirst ==
    (max_paths > 1 /\ pc = "done" /\ hit_type = "composed")
        => /\ result /= None
           /\ result[1] = composed_path

----------------------------------------------------------------------------
(* Either entry point of the finder: find_path_with_cache or, without the  *)
(* cache, find_path_bidirectional                                          *)

InitFinderCall ==
    /\ InitFinder
    /\ stale_backlinks = {}
    /\ max_depth = MaxDepthBound
    /\ wiki_links \in SUBSET OCandidateLinks
    /\ missing_pages = {}
    /\ failing_pages = {}
    /\ max_paths = 1
    /\ min_diversity = <<3, 10>>
    /\ \E a \in SearchArgs : start = a[1] /\ end = a[2]
    /\ callback \in BOOLEAN
    /\ lru \in {<<>>,
                <<[key |-> make_key(PA, PA), segment |-> <<PA, PB, PA>>]>>,
                <<[key |-> make_key(PA, PC), segment |-> <<PA, PB, PC>>],
                  [key |-> make_key(PC, PE), segment |-> <<PC, PE>>]>>}
    /\ store \in {<<>>, <<SegmentRow(<<"a">>, <<"a">>, <<PA, PB, PA>>)>>}
    /\ hit_type = "none"
    /\ composed_path = None
    /\ segment_metadata = None
    /\ NoStream
    /\ NoSide
    /\ pc \in {"ocall", "call"}

SpecFinderCall == InitFinderCall /\ [][NextOrch]_vars

\* C24: when norm(start) == norm(end), find_path_with_cache and
\* find_path_bidirectional return the single-node path [start] (hops 0) in
\* their first step, without any cache lookup, client call or node expansion,
\* so no page has been checked.
C24_SamePage ==
    /\ [][normalize_title(start) = normalize_title(end)
            => /\ pc' = "done"
               /\ result' = <<start>>
               /\ pc = "ocall" => hit_type' = "same_page"
               /\ UNCHANGED <<lru, store, client_calls, visited, events, bfsVars>>]_vars
    /\ []((normalize_title(start) = normalize_title(end) /\ pc = "done")
            => /\ Hops(result) = 0
               /\ client_calls = 0
               /\ visited = {}
               /\ forward_queue = <<>> /\ backward_queue = <<>>)

\* find_path_with_cache has returned for two spellings of one page, with a
\* cache that holds a segment from that page to itself.
C24_Witness ==
    /\ normalize_title(start) = normalize_title(end)
    /\ start /= end
    /\ pc = "done"
    /\ hit_type = "same_page"
    /\ lru /= <<>>
    /\ store /= <<>>

----------------------------------------------------------------------------
(* The engine on a graph with a dead end: a page without links, a page     *)
(* the API reports missing, a page whose links request fails               *)

DCandidateLinks == {<<PA, PB>>, <<PA, PC>>, <<PB, PD>>, <<PB, PE>>, <<PC, PE>>}

InitDeadEnd ==
    /\ InitFinder
    /\ NoCache
    /\ NoSide
    /\ wiki_links \in SUBSET DCandidateLinks
    /\ missing_pages \in SUBSET {PB}
    /\ failing_pages \in SUBSET {PB}
    /\ max_paths = 1
    /\ min_diversity = <<3, 10>>
    /\ start = PA
    /\ end = PE
    /\ callback = FALSE
    /\ pc = "call"

SpecDeadEnd == InitDeadEnd /\ [][Next]_vars

\* The links request of the page yields no link: the page has none, the API
\* reports it missing, or the request fails.
DeadEnd(page) ==
    \/ PageOf(page) \in missing_pages \cup failing_pages
    \/ \A x \in wiki_links : x[1] /= PageOf(page)

\* The pages reachable from the pages of S in at most k hops without leaving
\* a dead end.
RECURSIVE LiveReachWithin(_, _)
LiveReachWithin(S, k) ==
    IF k = 0 THEN S
    ELSE LiveReachWithin(
             S \cup {e[2] : e \in {x \in wiki_links : x[1] \in S /\ ~DeadEnd(x[1])}},
             k - 1)

\* C25: when the links of an expanded page are empty, None (page missing) or
\* the request fails, the engine adds no child for that page, raises no
\* error and goes on with the remaining queued nodes; a path that avoids the
\* dead-end pages (of at most max_depth hops) is still found.
C25_DeadEndsDoNotFail ==
    /\ [][(pc = "loop" /\ LoopCondition /\ ForwardTurn
             /\ DeadEnd(Head(forward_queue).page))
            => /\ forward_queue' = Tail(forward_queue)
               /\ forward_visited' = forward_visited
               /\ forward_parents' = forward_parents
               /\ pc' = "loop"
               /\ result' = result]_vars
    /\ []((pc = "done" /\ PageOf(end) \in LiveReachWithin({PageOf(start)}, max_depth))
            => result /= None)

\* The engine has expanded B, whose links request fails, dropped it, and
\* returned the path through C.
C25_Witness ==
    /\ PB \in failing_pages
    /\ <<PB, PE>> \in wiki_links
    /\ normalize_title(PB) \in forward_visited
    /\ \A i \in 1..Len(forward_queue) : forward_queue[i].page /= PB
    /\ pc = "done"
    /\ result = <<PA, PC, PE>>

----------------------------------------------------------------------------
(* The K-diverse engine under the depth cap the endpoints construct the    *)
(* finder with, on a graph with a direct link and a four-hop chain          *)

\* WikipediaPathFinder(max_depth=6)
DefaultMaxDepth == 6

KDeepCandidateLinks ==
    {<<PA, PE>>, <<PA, PB>>, <<PB, PC>>, <<PC, PD>>, <<PD, PE>>, <<PB, PE>>, <<PC, PE>>}

InitKDeep ==
    /\ stale_backlinks = {}
    /\ max_depth = DefaultMaxDepth
    /\ edge_cache = EmptyMemo
    /\ visited = {}
    /\ forward_queue = <<>>
    /\ backward_queue = <<>>
    /\ forward_visited = {}
    /\ backward_visited = {}
    /\ forward_parents = EmptyMemo
    /\ backward_parents = EmptyMemo
    /\ forward_depth = 0
    /\ backward_depth = 0
    /\ pages_checked = 0
    /\ result = None
    /\ events = <<>>
    /\ client_calls = 0
    /\ validator_fetches = <<>>
    /\ idle_iterations = 0
    /\ meeting = "none"
    /\ rejected = 0
    /\ found_paths = <<>>
    /\ shortest_path_length = 0
    /\ NoCache
    /\ NoSide
    /\ wiki_links \in SUBSET KDeepCandidateLinks
    /\ missing_pages = {}
    /\ failing_pages = {}
    /\ start = PA
    /\ end = PE
    /\ max_paths \in 1..(MaxPathsBound + 1)
    /\ min_diversity \in Diversities
    /\ callback = FALSE
    /\ pc = "kcall"

SpecKDeep == InitKDeep /\ [][NextK]_vars

\* Hops of the first path the search met: shortest_path_length holds its
\* number of titles.
FirstPathHops == shortest_path_length - 1

StopRule ==
    \/ Len(found_paths) >= max_paths
    \/ (shortest_path_length /= 0
           /\ forward_depth + backward_depth > FirstPathHops + 2)
    \/ forward_depth + backward_depth > max_depth
    \/ (forward_queue = <<>> /\ backward_queue = <<>>)

\* C26: the K-diverse search stops expanding exactly when K diverse paths
\* are collected, or forward_depth + backward_depth exceeds the length in
\* hops of the first path found by more than 2, or the total depth exceeds
\* the depth cap, or both queues are empty: at the head of the loop the
\* search goes on if and only if none of these holds.
C26_StoppingRule ==
    (pc = "kloop") => (KLoopCondition <=> ~StopRule)

\* The record of a failed search: success = false and an empty path.
FailedRecord == [success |-> FALSE, path |-> <<>>]

TimedOut == response = "none" /\ response' = "timeout"

\* C27: when the wall-clock budget of a non-streaming search expires, the
\* search is cancelled (no step of it follows), the caller receives the
\* timeout error response, the search-history record, if one is saved, has
\* success = false and an empty path, and no segment is written to the cache:
\* the expiry step leaves both tiers as they are, and no step before the
\* write-back of a success adds a segment the cache did not hold.
C27_TimeoutIsNotSuccess ==
    /\ [][TimedOut =>
            /\ pc' = "cancelled"
            /\ saved_searches' \in {saved_searches, Append(saved_searches, FailedRecord)}
            /\ lru' = lru
            /\ store' = store]_vars
    /\ [][response /= "timeout"]_vars
    /\ [][response' /= "success"
            => CachedSegments(lru', store') \subseteq CachedSegments(lru, store)]_vars
    /\ [](response = "timeout" =>
            \A i \in 1..Len(saved_searches) : saved_searches[i] = FailedRecord)

\* The budget expired after the engine had found a path and a cached segment
\* had been read: the failed record is saved and the store is as it was.
C27_Witness ==
    /\ response = "timeout"
    /\ result /= None
    /\ client_calls > 0
    /\ saved_searches = <<FailedRecord>>
    /\ store /= <<>>
    /\ \A i \in 1..Len(store) : store[i].segment_path = <<PA, PC>>

----------------------------------------------------------------------------
(* Both engines on graphs whose backlinks API reports stale entries        *)

InitMeeting ==
    /\ InitFinder
    /\ NoCache
    /\ NoSide
    /\ wiki_links \in SUBSET CandidateLinks
    /\ missing_pages \in SUBSET CandidateMissing
    /\ failing_pages = {}
    /\ start = PA
    /\ end = PE
    /\ min_diversity = <<3, 10>>
    /\ callback = FALSE
    /\ \/ pc = "call" /\ max_paths = 1
       \/ pc = "kcall" /\ max_paths \in 1..MaxPathsBound

NextMeeting == Next \/ NextK

SpecMeeting == InitMeeting /\ [][NextMeeting]_vars

\* This step is a backward expansion: it pops the head of the backward queue.
BackwardStep ==
    /\ pc \in {"loop", "kloop"}
    /\ backward_queue /= <<>>
    /\ backward_queue' /= backward_queue

\* The paths assembled at the meeting points among the backlinks of the node
\* a backward expansion pops.
MeetingCandidates ==
    LET cur == Head(backward_queue)
    IN  {reconstruct_forward_path(normalize_title(link), forward_parents) \o cur.path :
            link \in {b \in BackLinks(cur.page) : normalize_title(b) \in forward_visited}}

\* Every edge of the path is a link the source page has when fetched.
RealPath(path) ==
    \A i \in 1..(Len(path) - 1) :
        /\ ~LinksMissing(path[i])
        /\ normalize_title(path[i + 1]) \in
               {normalize_title(l) : l \in OutLinks(path[i])}

\* The expansion went through all backlinks: the nodes queued before stay
\* queued, in order, and every backlink that is no meeting point is visited.
Continued ==
    LET cur == Head(backward_queue)
        rest == Tail(backward_queue)
    IN  /\ Len(backward_queue') >= Len(rest)
        /\ SubSeq(backward_queue', 1, Len(rest)) = rest
        /\ \A b \in BackLinks(cur.page) :
               normalize_title(b) \notin forward_visited
                   => normalize_title(b) \in backward_visited'

\* C28: in both engines a path assembled at a meeting point of a backward
\* expansion is returned or admitted only if, the edge memo cleared, every
\* one of its edges was fetched and found (no entry of the memo afterwards is
\* about a page off the candidates); when validation rejects it the search
\* neither returns nor fails: it goes on with the remaining backlinks, a
\* later valid candidate is returned or admitted, and the queue is kept.
C28_BackwardMeetingValidated ==
    [][BackwardStep =>
         LET cands == MeetingCandidates
             real == {p \in cands : RealPath(p)}
             admitted == {found_paths'[i] : i \in (Len(found_paths) + 1)..Len(found_paths')}
         IN  /\ cands /= {} =>
                    \A k \in DOMAIN edge_cache' :
                        \E p \in cands : \E i \in 1..Len(p) : k[1] = normalize_title(p[i])
             /\ pc = "loop" =>
                    IF real = {}
                    THEN pc' = "loop" /\ result' = None /\ Continued
                    ELSE pc' = "done" /\ result' \in real
             /\ pc = "kloop" =>
                    /\ pc' = "kloop"
                    /\ Len(found_paths') >= Len(found_paths)
                    /\ admitted \subseteq real
                    /\ (real /= {} /\ found_paths = <<>>) => found_paths' /= <<>>
                    /\ Continued]_vars

\* After a candidate through a stale backlink was rejected, a later meeting
\* point of the backward search gave the path that is returned.
C28_Witness ==
    /\ pc = "done"
    /\ meeting = "backward"
    /\ rejected > 0
    /\ max_paths = 1
    /\ result /= None
    /\ RealPath(result)

----------------------------------------------------------------------------
(* The path validator alone: _validate_path called twice on one path, the  *)
(* memo cleared or kept in between, the remote graph losing a link         *)

VCandidateLinks == {<<PA, PB>>, <<PB, PC>>, <<PA, PC>>}

VTitles == {PA, (<<"b">>), PC}

\* Bound of the model: the longest path handed to the validator.
MaxPathLen == 3

ValidatorPaths == UNION {[1..n -> VTitles] : n \in 0..MaxPathLen}

validateFrame ==
    <<stale_backlinks, missing_pages, failing_pages, max_depth, visited, argVars,
      bfsVars, kVars, cacheVars, orchVars, streamVars, normVars, retryVars, threadVars,
      endpointVars, result, events, idle_iterations, meeting, rejected>>

\* await self._validate_path(path): of any path, and then of the same path
\* once more.
ValidatePath ==
    /\ pc \in {"validate", "revalidate"}
    /\ Called
    /\ \E path \in IF pc = "validate" THEN ValidatorPaths ELSE {last_call.path} :
         \E v \in {validate_path(edge_cache, path)} :
           /\ edge_cache' = v.memo
           /\ client_calls' = client_calls + v.calls
           /\ validator_fetches' = validator_fetches \o FetchedSources(edge_cache, path)
           /\ last_call' = Call("_validate_path", None, None, path, TRUE, v.valid)
    /\ pc' = IF pc = "validate" THEN "revalidate" ELSE "validated"
    /\ UNCHANGED <<wiki_links, validateFrame>>

\* self._edge_cache.clear()
ClearEdgeCache ==
    /\ pc = "revalidate"
    /\ edge_cache /= EmptyMemo
    /\ edge_cache' = EmptyMemo
    /\ UNCHANGED <<wiki_links, validateFrame, last_call, calls, client_calls,
                   validator_fetches, pc>>

\* Between two calls an editor removes a link from a page.
RemoveLink ==
    /\ pc = "revalidate"
    /\ \E e \in wiki_links : wiki_links' = wiki_links \ {e}
    /\ UNCHANGED <<validateFrame, edge_cache, last_call, calls, client_calls,
                   validator_fetches, pc>>

InitValidate ==
    /\ InitFinder
    /\ stale_backlinks = {}
    /\ max_depth = MaxDepthBound
    /\ wiki_links \in SUBSET VCandidateLinks
    /\ missing_pages \in SUBSET {PB}
    /\ failing_pages \in SUBSET {PB}
    /\ max_paths = 1
    /\ min_diversity = <<3, 10>>
    /\ start = PA
    /\ end = PE
    /\ callback = FALSE
    /\ NoCache
    /\ NoSide
    /\ pc = "validate"

NextValidate ==
    \/ ValidatePath
    \/ ClearEdgeCache
    \/ RemoveLink

SpecValidate == InitValidate /\ [][NextValidate]_vars

\* This step is a call of _validate_path.
ValidatorReturns ==
    /\ calls' = calls + 1
    /\ last_call'.op = "_validate_path"

\* The request for the links of from_page succeeds and one of the links it
\* returns has the normalized title of to_page.
EdgeHolds(from_page, to_page) ==
    /\ PageOf(from_page) \notin missing_pages \cup failing_pages
    /\ \E e \in wiki_links :
         /\ e[1] = PageOf(from_page)
         /\ normalize_title(e[2]) = normalize_title(to_page)

\* C29: called with an empty memo, _validate_path(path) returns valid if and
\* only if for every consecutive pair the normalized p[i+1] is among the
\* normalized outbound links fetched for p[i]; a missing page or a failed
\* fetch for any edge makes the result invalid; an empty or single-node path
\* is valid without any fetch, and a longer one fetches once per edge.
C29_ValidatorResult ==
    [][(ValidatorReturns /\ edge_cache = EmptyMemo) =>
         LET path == last_call'.path
             edges == 1..(Len(path) - 1)
         IN  /\ last_call'.ret = (\A i \in edges : EdgeHolds(path[i], path[i + 1]))
             /\ (\E i \in edges : PageOf(path[i]) \in missing_pages \cup failing_pages)
                    => last_call'.ret = FALSE
             /\ Len(path) < 2 =>
                    /\ last_call'.ret = TRUE
                    /\ client_calls' = client_calls
                    /\ edge_cache' = edge_cache
             /\ Len(path) >= 2 => client_calls' = client_calls + Len(path) - 1]_vars

\* A first call, the memo empty, accepted a three-node path whose middle
\* title is spelled in lower case, after one fetch per edge.
C29_Witness ==
    /\ calls = 1
    /\ last_call.op = "_validate_path"
    /\ last_call.path = <<PA, (<<"b">>), PC>>
    /\ last_call.ret = TRUE
    /\ client_calls = 2

\* Following the parent entries from key reaches the root, whose entry has
\* no parent, in at most fuel steps.
RECURSIVE ReachesRoot(_, _, _, _)
ReachesRoot(key, parents, root, fuel) ==
    IF key = root THEN parents[key][1] = None
    ELSE /\ fuel > 0
         /\ parents[key][1] \in DOMAIN parents
         /\ ReachesRoot(parents[key][1], parents, root, fuel - 1)

\* The visited set and the parent map of one direction form a tree.
ParentTree(visited_set, parents, root_title) ==
    /\ DOMAIN parents = visited_set
    /\ \A key \in DOMAIN parents :
         ReachesRoot(key, parents, normalize_title(root_title), Cardinality(visited_set))

\* Every entry of the map before the step is in the map after it, unchanged.
WrittenOnce(parents_before, parents_after) ==
    \A key \in DOMAIN parents_before :
        /\ key \in DOMAIN parents_after
        /\ parents_after[key] = parents_before[key]

\* C30: in each direction, throughout a search of either engine, the key set
\* of the parent map equals the visited set, no parent entry is overwritten
\* or removed after its first write, and following parent entries from any
\* key reaches the root (start for forward, end for backward) in finitely
\* many steps.
C30_ParentTrees ==
    /\ [](pc \in {"loop", "kloop", "done"} /\ forward_visited /= {} =>
            /\ ParentTree(forward_visited, forward_parents, start)
            /\ ParentTree(backward_visited, backward_parents, end))
    /\ [](DOMAIN forward_parents = forward_visited
            /\ DOMAIN backward_parents = backward_visited)
    /\ [][/\ WrittenOnce(forward_parents, forward_parents')
          /\ WrittenOnce(backward_parents, backward_parents')]_vars

\* B was expanded forward and links back to the start page, and the search
\* went a level deeper: the root's entry is still the one without a parent.
C30_Witness ==
    /\ pc \in {"loop", "kloop"}
    /\ <<PB, PA>> \in wiki_links
    /\ PB \notin missing_pages
    /\ normalize_title(PB) \in forward_visited
    /\ \A i \in 1..Len(forward_queue) : forward_queue[i].page /= PB
    /\ forward_parents[normalize_title(PA)] = <<None, PA>>
    /\ \E key \in DOMAIN forward_parents :
         forward_parents[key][1] = normalize_title(PB)

----------------------------------------------------------------------------
(* PathCache called from several threads: self._lock (an RLock) and the    *)
(* calls of the database module made inside and outside "with self._lock"  *)

Threads == {"t1", "t2"}

\* The calls that begin with "with self._lock:".
LockedCalls ==
    {Call("get", a[1], a[2], None, TRUE, None) : a \in {<<PA, PC>>}}
        \cup {Call("put", a[1], a[2], a[3], db_ok, None) :
                 a \in PutArgs, db_ok \in BOOLEAN}
        \cup {Call("bulk_put", None, None, extract_segments_from_path(<<PA, PB, PC>>),
                   db_ok, None) : db_ok \in BOOLEAN}
        \cup {Call("get_connected_nodes", (<<"a">>), None, None, TRUE, None)}

lockFrame ==
    <<graphVars, finderVars, argVars, bfsVars, kVars, orchVars, streamVars, normVars,
      retryVars, endpointVars, ctlVars, last_call>>

\* A thread enters "with self._lock:" of get, put, bulk_put or
\* get_connected_nodes; it waits while another thread holds the lock.
Acquire ==
    /\ pc = "threads"
    /\ Called
    /\ lock_holder = "free"
    /\ \E t \in Threads, call \in LockedCalls :
         /\ thread_pc[t] = "idle"
         /\ thread_call' = [thread_call EXCEPT ![t] = call]
         /\ thread_pc' = [thread_pc EXCEPT ![t] = "memory"]
         /\ lock_holder' = t
    /\ UNCHANGED <<lockFrame, cacheVars>>

\* warm_cache_from_db opens a connection and runs its SELECT before it
\* takes the lock.
WarmQuery ==
    /\ pc = "threads"
    /\ Called
    /\ \E t \in Threads, db_ok \in BOOLEAN :
         /\ thread_pc[t] = "idle"
         /\ thread_call' = [thread_call EXCEPT
                               ![t] = Call("warm_cache_from_db", None, None, None,
                                           db_ok, None)]
         /\ thread_pc' = [thread_pc EXCEPT ![t] = "store_call"]
    /\ UNCHANGED <<lockFrame, cacheVars, lock_holder>>

\* The part of a call that works on self._cache, up to its call of the
\* database module or to the end of the "with" block.
MemoryStep ==
    /\ pc = "threads"
    /\ \E t \in Threads :
         LET c == thread_call[t]
             key == make_key(c.start_page, c.end_page)
             to_store == /\ thread_pc' = [thread_pc EXCEPT ![t] = "store_call"]
                         /\ UNCHANGED lock_holder
             released == /\ thread_pc' = [thread_pc EXCEPT ![t] = "idle"]
                         /\ lock_holder' = "free"
         IN  /\ thread_pc[t] = "memory"
             /\ lock_holder = t
             /\ CASE c.op = "get" ->
                       IF KeyIndex(lru, key) /= 0
                       THEN lru' = move_to_end(lru, key) /\ released
                       ELSE lru' = lru /\ to_store
                  [] c.op = "put" ->
                       /\ lru' = put_internal(lru, store, c.start_page, c.end_page,
                                              c.path, FALSE).lru
                       /\ to_store
                  [] c.op = "bulk_put" ->
                       /\ lru' = PutAll(lru, c.path)
                       /\ to_store
                  [] c.op = "get_connected_nodes" ->
                       /\ lru' = lru
                       /\ thread_pc' = [thread_pc EXCEPT ![t] = "store_call"]
                       /\ lock_holder' = "free"
                  [] c.op = "warm_cache_from_db" ->
                       /\ lru' = PutAll(lru, c.path)
                       /\ released
    /\ UNCHANGED <<lockFrame, store, thread_call, calls>>

\* The call of the database module returns.
StoreReturn ==
    /\ pc = "threads"
    /\ \E t \in Threads :
         LET c == thread_call[t]
             segment == get_path_segment(store, c.start_page, c.end_page)
             released == /\ thread_pc' = [thread_pc EXCEPT ![t] = "idle"]
                         /\ lock_holder' = "free"
         IN  /\ thread_pc[t] = "store_call"
             /\ CASE c.op = "get" ->
                       /\ store' = get_path_segment_update(store, c.start_page, c.end_page)
                       /\ lru' = IF segment /= None
                                 THEN put_internal(lru, store, c.start_page, c.end_page,
                                                   segment, FALSE).lru
                                 ELSE lru
                       /\ released
                       /\ UNCHANGED thread_call
                  [] c.op = "put" ->
                       /\ store' = IF c.db_ok
                                   THEN save_path_segment(store, c.start_page, c.end_page,
                                                          c.path)
                                   ELSE store
                       /\ released
                       /\ UNCHANGED <<lru, thread_call>>
                  [] c.op = "bulk_put" ->
                       /\ store' = IF c.db_ok THEN save_path_segments_bulk(store, c.path)
                                   ELSE store
                       /\ released
                       /\ UNCHANGED <<lru, thread_call>>
                  [] c.op = "get_connected_nodes" ->
                       /\ thread_pc' = [thread_pc EXCEPT ![t] = "idle"]
                       /\ UNCHANGED <<cacheVars, lock_holder, thread_call>>
                  [] c.op = "warm_cache_from_db" ->
                       /\ IF c.db_ok
                          THEN /\ \E o \in RowOrders(Range(RowSegments(store))) :
                                    thread_call' = [thread_call EXCEPT ![t].path = o]
                               /\ thread_pc' = [thread_pc EXCEPT ![t] = "warm_lock"]
                          ELSE /\ thread_pc' = [thread_pc EXCEPT ![t] = "idle"]
                               /\ UNCHANGED thread_call
                       /\ UNCHANGED <<cacheVars, lock_holder>>
    /\ UNCHANGED <<lockFrame, calls>>

\* warm_cache_from_db, its rows fetched, enters "with self._lock:".
WarmAcquire ==
    /\ pc = "threads"
    /\ lock_holder = "free"
    /\ \E t \in Threads :
         /\ thread_pc[t] = "warm_lock"
         /\ thread_pc' = [thread_pc EXCEPT ![t] = "memory"]
         /\ lock_holder' = t
    /\ UNCHANGED <<lockFrame, cacheVars, thread_call, calls>>

InitLock ==
    /\ NoSearch
    /\ NoCacheCall
    /\ NoNormalize
    /\ NoClientCall
    /\ NoResponse
    /\ lock_holder = "free"
    /\ thread_pc = [t \in Threads |-> "idle"]
    /\ thread_call = [t \in Threads |-> NoCall]
    /\ pc = "threads"

NextLock ==
    \/ Acquire
    \/ WarmQuery
    \/ MemoryStep
    \/ StoreReturn
    \/ WarmAcquire

SpecLock == InitLock /\ [][NextLock]_vars

\* C31: in no reachable state does a thread hold the PathCache lock while a
\* database read or write issued by get, put, bulk_put, warm_cache_from_db
\* or get_connected_nodes is in progress.
C31_LockNotHeldAcrossStore ==
    \A t \in Threads : thread_pc[t] = "store_call" => lock_holder /= t

\* C32: within one search (one call of find_path_bidirectional or
\* find_k_paths_bidirectional, with all the validations it triggers) the
\* validator issues at most one outbound-links fetch for any source page.
C32_FetchedOncePerSearch ==
    \A i, j \in 1..Len(validator_fetches) :
        i /= j => validator_fetches[i] /= validator_fetches[j]

----------------------------------------------------------------------------
(* One finder used for successive searches                                 *)

\* How many searches the caller makes on the finder.
MaxSearches == 2

\* The caller calls find_path_with_cache again on the same finder: the
\* locals of the finished call are gone, the finder's fields
\* (self._edge_cache, self.visited) and the cache are as it left them.
\* Between the two calls an editor may have removed a link from a page.
SearchAgain ==
    /\ pc = "done"
    /\ calls + 1 < MaxSearches
    /\ calls' = calls + 1
    /\ \E a \in SearchArgs : start' = a[1] /\ end' = a[2]
    /\ \E gone \in {{}} \cup {{e} : e \in wiki_links} : wiki_links' = wiki_links \ gone
    /\ forward_queue' = <<>>
    /\ backward_queue' = <<>>
    /\ forward_visited' = {}
    /\ backward_visited' = {}
    /\ forward_parents' = EmptyMemo
    /\ backward_parents' = EmptyMemo
    /\ forward_depth' = 0
    /\ backward_depth' = 0
    /\ pages_checked' = 0
    /\ result' = None
    /\ events' = <<>>
    /\ client_calls' = 0
    /\ validator_fetches' = <<>>
    /\ idle_iterations' = 0
    /\ meeting' = "none"
    /\ rejected' = 0
    /\ hit_type' = "none"
    /\ composed_path' = None
    /\ segment_metadata' = None
    /\ pc' = "ocall"
    /\ UNCHANGED <<stale_backlinks, missing_pages, failing_pages, finderVars, callback,
                   kVars, cacheVars, streamVars, last_call, normVars, retryVars,
                   endpointVars, threadVars>>

NextReuse == NextOrch \/ SearchAgain

SpecReuse == InitOrch /\ [][NextReuse]_vars

\* The memo keys the validation of a path consults.
EdgeKeys(path) ==
    {<<normalize_title(path[i]), normalize_title(path[i + 1])>> : i \in 1..(Len(path) - 1)}

\* C33: no validation of a search reads a memo entry written during an
\* earlier search on the same finder.  A composed candidate is validated
\* before the search has written to the memo, so every entry the validation
\* finds there is an earlier search's: the claim says it finds none.
C33_MemoFreshAtValidation ==
    pc = "ovalidate" => EdgeKeys(composed_path) \cap DOMAIN edge_cache = {}

----------------------------------------------------------------------------
(* Claims about the memory tier's bound and eviction order                 *)

\* The keys of the memory tier, least recently used first.
KeysOf(cache) == [i \in 1..Len(cache) |-> cache[i].key]

\* What one use of a key (a get that hits, a put, a load from the store)
\* is to do to the keys ordered by their last use, oldest first: the key
\* becomes the newest; if it is new and the tier is full, exactly the oldest
\* key goes.
Used(keys, key) ==
    LET others == SelectSeq(keys, LAMBDA k : k /= key)
    IN  IF \E i \in 1..Len(keys) : keys[i] = key THEN Append(others, key)
        ELSE IF Len(keys) < CacheMaxSize THEN Append(keys, key)
        ELSE Append(Tail(keys), key)

RECURSIVE UsedAll(_, _)
UsedAll(keys, used) ==
    IF used = <<>> THEN keys ELSE UsedAll(Used(keys, Head(used)), Tail(used))

\* The keys of bulk_put-style triples, in order.
SegmentKeys(segments) ==
    [i \in 1..Len(segments) |-> make_key(segments[i][1], segments[i][2])]

\* This step is a call of the given method on the cache.
StepOf(op) == calls' = calls + 1 /\ last_call'.op = op

\* C34: after any sequence of get, put, bulk_put and warm operations the
\* memory tier holds at most max_size entries, one per key; an insert that
\* overflows it discards exactly one entry, the one whose last get-hit or
\* put is the oldest among those present before the insert.  The order of
\* last use is carried from step to step: the tier starts empty and every
\* operation moves the keys it uses to the newest end, keeps the order of
\* the others and, per insert into a full tier, drops the oldest.  The
\* warm-up loads rows in the order of their timestamps, which the store of
\* the model does not keep: it fills the new tier with distinct keys of the
\* store up to max_size.
C34_LRUBoundAndOrder ==
    [][/\ Len(lru') <= CacheMaxSize
       /\ \A i, j \in 1..Len(lru') : i /= j => lru'[i].key /= lru'[j].key
       /\ StepOf("put")
            => KeysOf(lru') = Used(KeysOf(lru),
                                   make_key(last_call'.start_page, last_call'.end_page))
       /\ StepOf("get")
            => KeysOf(lru') =
                 IF last_call'.ret /= None
                 THEN Used(KeysOf(lru),
                           make_key(last_call'.start_page, last_call'.end_page))
                 ELSE KeysOf(lru)
       /\ StepOf("cache_path")
            => KeysOf(lru') =
                 IF Len(last_call'.path) < 2 THEN KeysOf(lru)
                 ELSE UsedAll(KeysOf(lru),
                              SegmentKeys(extract_segments_from_path(last_call'.path)))
       /\ (StepOf("restart") /\ last_call'.db_ok)
            => /\ Range(KeysOf(lru')) \subseteq Range(SegmentKeys(RowSegments(store)))
               /\ Len(lru') = Min(CacheMaxSize,
                                  Cardinality(Range(SegmentKeys(RowSegments(store)))))]_vars

\* A path of three segments has been cached in a tier of fewer places: the
\* segments used first have been discarded, the ones used last are held.
C34_Witness ==
    /\ last_call.op = "cache_path"
    /\ Len(extract_segments_from_path(last_call.path)) > CacheMaxSize
    /\ Len(lru) = CacheMaxSize
    /\ make_key(last_call.path[1], last_call.path[2]) \notin Range(KeysOf(lru))

----------------------------------------------------------------------------
(* bulk_put and the store's bulk write:                                    *)
(* database.save_path_segments_bulk under get_db                           *)

\* save_path_segments_bulk(segments, max_retries=3)
bulk_max_retries == 3

\* The base of "sleep_time = 0.1 * (2 ** attempt)", in milliseconds.
bulk_backoff == 100

\* How an attempt's transaction may end: it commits, or a statement (or the
\* commit) raises sqlite3.OperationalError with "database is locked" /
\* "database is busy" or with another message, or another sqlite3 error.
DbOutcomes == {"ok", "locked", "busy", "disk I/O error", "IntegrityError"}

\* sqlite3.OperationalError
OperationalError == {"locked", "busy", "disk I/O error"}

\* "'locked' in error_str or 'busy' in error_str"
LockError == {"locked", "busy"}

\* A variant of get_db that commits what was executed before an exception.
get_db_committing(rows, working, raised) == working

\* get_db: "yield conn; conn.commit()", and on an exception
\* "conn.rollback(); raise": the rows of the store after the with block.
get_db(rows, working, raised) == IF raised THEN rows ELSE working

\* bulk_put's "except Exception": logged, nothing raised to the caller.
bulk_put_exit(db_return) == "bulk_returned"

\* The batch of the running bulk_put.
Batch == extract_segments_from_path(last_call.path)

bulkFrame ==
    <<graphVars, finderVars, argVars, bfsVars, kVars, orchVars, streamVars, normVars,
      endpointVars, threadVars, result, events, client_calls, validator_fetches,
      idle_iterations, meeting, rejected, client_arg>>

\* cache.cache_path(path) -> bulk_put(segments), up to its call of
\* database.save_path_segments_bulk: the memory tier is updated first.
BulkPutCall ==
    /\ pc \in {"bulk_call", "bulk_returned"}
    /\ Called
    /\ \E path \in CachePaths :
         /\ lru' = PutAll(lru, extract_segments_from_path(path))
         /\ last_call' = Call("bulk_put", path[1], path[Len(path)], path, TRUE, None)
    /\ client_fn' = "save_path_segments_bulk"
    /\ attempt' = 0
    /\ attempts' = <<>>
    /\ sleeps' = <<>>
    /\ client_return' = "none"
    /\ pc' = "bulk_save"
    /\ UNCHANGED <<store, bulkFrame>>

\* One iteration of "for attempt in range(max_retries)": the statements of
\* the first k segments are executed, then the transaction commits or an
\* error is raised (k = the whole batch: by the commit).
BulkAttempt ==
    /\ pc = "bulk_save"
    /\ attempt < bulk_max_retries
    /\ \E outcome \in DbOutcomes, k \in 0..Len(Batch) :
         /\ outcome = "ok" => k = Len(Batch)
         /\ store' = get_db(store, save_path_segments_bulk(store, SubSeq(Batch, 1, k)),
                            outcome /= "ok")
         /\ attempts' = Append(attempts, outcome)
         /\ IF outcome = "ok"
            THEN /\ client_return' = "saved"
                 /\ pc' = "bulk_done"
                 /\ UNCHANGED <<attempt, sleeps>>
            ELSE IF outcome \in OperationalError /\ outcome \in LockError
                      /\ attempt < bulk_max_retries - 1
            THEN /\ sleeps' = Append(sleeps, bulk_backoff * (2 ^ attempt))
                 /\ attempt' = attempt + 1
                 /\ UNCHANGED <<pc, client_return>>
            ELSE /\ client_return' = "raised"
                 /\ pc' = "bulk_done"
                 /\ UNCHANGED <<attempt, sleeps>>
    /\ UNCHANGED <<lru, last_call, calls, client_fn, bulkFrame>>

\* bulk_put after the database call: its try/except and its return.
BulkPutReturn ==
    /\ pc = "bulk_done"
    /\ pc' = bulk_put_exit(client_return)
    /\ last_call' = [last_call EXCEPT !.db_ok = (client_return = "saved")]
    /\ UNCHANGED <<cacheVars, calls, retryVars, bulkFrame>>

InitBulk ==
    /\ NoSearch
    /\ NoSide
    /\ pc = "bulk_call"

NextBulk ==
    \/ BulkPutCall
    \/ BulkAttempt
    \/ BulkPutReturn

SpecBulk == InitBulk /\ [][NextBulk]_vars

\* C35: save_path_segments_bulk commits every insert/update of the batch or
\* none of them; it attempts the transaction at most 3 times, again only
\* after a busy/locked error (sleeping 0.1 * 2^attempt s), and raises any
\* other error at once; when it finally fails bulk_put swallows the error:
\* it returns to its caller with the memory tier updated.
C35_BulkWriteAtomicBestEffort ==
    [][/\ pc = "bulk_save"
          => /\ store' = IF attempts'[Len(attempts')] = "ok"
                         THEN save_path_segments_bulk(store, Batch)
                         ELSE store
             /\ Len(attempts') <= bulk_max_retries
             /\ pc' = "bulk_save"
                  <=> /\ attempts'[Len(attempts')] \in {"locked", "busy"}
                      /\ Len(attempts') < bulk_max_retries
             /\ pc' = "bulk_save"
                  => sleeps' = Append(sleeps, bulk_backoff * (2 ^ (Len(attempts') - 1)))
             /\ pc' = "bulk_done"
                  => client_return' = IF attempts'[Len(attempts')] = "ok"
                                      THEN "saved" ELSE "raised"
       /\ pc = "bulk_done"
          => /\ pc' = "bulk_returned"
             /\ lru' = lru
             /\ \E j \in 1..Len(lru) :
                  lru[j].key = make_key(Batch[Len(Batch)][1], Batch[Len(Batch)][2])]_vars

\* Every attempt of a bulk write ended with a busy or locked error and
\* bulk_put has returned; the store holds nothing of the batch.
C35_Witness ==
    /\ pc = "bulk_returned"
    /\ attempts = <<"busy", "locked", "busy">>
    /\ client_return = "raised"
    /\ store = <<>>
    /\ lru /= <<>>

----------------------------------------------------------------------------
(* Claims about the two directions of find_path_bidirectional              *)

\* C36: in a search of find_path_bidirectional with norm(start) /= norm(end)
\* the forward and the backward visited sets are disjoint in every state: a
\* title discovered in one direction that the other has visited is a meeting
\* point and never joins the discovering direction's visited set, parent map
\* or queue.
C36_DirectionsDisjoint ==
    ~SamePage(normalize_title(start), normalize_title(end))
        => /\ forward_visited \cap backward_visited = {}
           /\ DOMAIN forward_parents \cap DOMAIN backward_parents = {}
           /\ \A i \in 1..Len(forward_queue) :
                normalize_title(forward_queue[i].page) \notin backward_visited
           /\ \A i \in 1..Len(backward_queue) :
                normalize_title(backward_queue[i].page) \notin forward_visited

\* The backward direction has met a title the forward direction had visited,
\* the candidate was rejected and the search goes on, both directions having
\* visited more than their root.
C36_Witness ==
    /\ pc = "loop"
    /\ rejected > 0
    /\ ~SamePage(normalize_title(start), normalize_title(end))
    /\ Cardinality(forward_visited) > 1
    /\ Cardinality(backward_visited) > 1

----------------------------------------------------------------------------
(* The engine on a graph where a page the backlinks API wrongly reports is  *)
(* two hops from the start                                                 *)

\* E's backlinks may list C although C does not link to E (CandidateStale);
\* C is reached from A through D, which A lists after B.
TCandidateLinks == {<<PA, PB>>, <<PA, PD>>, <<PD, PC>>, <<PC, PE>>, <<PB, PE>>, <<PD, PB>>}

InitStale ==
    /\ InitFinder
    /\ NoCache
    /\ NoSide
    /\ wiki_links \in SUBSET TCandidateLinks
    /\ missing_pages = {}
    /\ failing_pages = {}
    /\ max_paths = 1
    /\ min_diversity = <<3, 10>>
    /\ start = PA
    /\ end = PE
    /\ callback = FALSE
    /\ pc = "call"

SpecStale == InitStale /\ [][Next]_vars

\* C37: every edge of a path find_path_bidirectional returns exists in the
\* outbound-link relation: for every i, norm(p[i+1]) is an outbound link of
\* p[i], also when a backlinks answer lists a title that does not link to
\* the queried page and the meeting point is found by a forward expansion.
C37_ReturnedEdgesExist == Returned => RealPath(result)

\* C38: the two tiers of the cache agree: for every (start, end) key held
\* both by the memory tier and by the store, the path held in memory equals
\* the path of the store's row.
C38_TiersAgree ==
    \A i \in 1..Len(lru) : \A j \in 1..Len(store) :
        (store[j].start_page = lru[i].key[1] /\ store[j].end_page = lru[i].key[2])
            => store[j].segment_path = lru[i].segment

\* The positions of the queue's history that hold a sentinel.
SentinelsPut == {i \in 1..Len(event_queue) : event_queue[i] = Sentinel}

\* The positions of the queue's history that hold a complete or error event.
EndEventsPut ==
    {i \in 1..Len(event_queue) : event_queue[i].type \in {"complete", "error"}}

\* C39: a streaming search gets exactly one end-of-stream signal: the
\* producer enqueues the sentinel at most once and at most one of complete /
\* error, and nothing is enqueued after the sentinel.
C39_OneEndOfStream ==
    /\ Cardinality(SentinelsPut) <= 1
    /\ Cardinality(EndEventsPut) <= 1
    /\ \A i \in SentinelsPut : i = Len(event_queue)

\* A search has ended with its terminal event and the sentinel on the queue,
\* after at least one other event, and the consumer has taken them all.
C39_Witness ==
    /\ task = "finished"
    /\ Cardinality(SentinelsPut) = 1
    /\ Cardinality(EndEventsPut) = 1
    /\ Len(event_queue) > 2
    /\ consumed = Len(event_queue)

----------------------------------------------------------------------------
(* A search's path written back to the cache and looked up again           *)

\* Paths a search may return and the endpoint then hands to cache_path: one
\* to four hops (the default depth cap is 6), a start typed in lower case.
FoundPaths ==
    {<<PA, PE>>, <<PA, PC, PE>>, <<(<<"a">>), PC, PE>>, <<PA, PB, PC, PD, PE>>}

retrieveFrame == <<bulkFrame, client_fn, attempt, attempts, sleeps, client_return>>

\* "cache.cache_path(path)" after a search that found the path.
CacheFound ==
    /\ pc \in {"found", "retrieved"}
    /\ Called
    /\ \E path \in FoundPaths, db_ok \in BOOLEAN :
         \E c \in {cache_path(lru, store, path, db_ok)} :
           /\ lru' = c.lru
           /\ store' = c.store
           /\ last_call' = Call("cache_path", path[1], path[Len(path)], path, db_ok, None)
    /\ pc' = "cached"
    /\ UNCHANGED retrieveFrame

\* The same search again: find_path_with_cache's
\* "self.cache.get(start_normalized, end_normalized)".
GetFound ==
    /\ pc = "cached"
    /\ Called
    /\ \E got \in {cache_get(lru, store, normalize_title(last_call.start_page),
                             normalize_title(last_call.end_page))} :
         /\ lru' = got.lru
         /\ store' = got.store
         /\ last_call' = Call("get", normalize_title(last_call.start_page),
                              normalize_title(last_call.end_page), last_call.path,
                              last_call.db_ok, got.value)
    /\ pc' = "retrieved"
    /\ UNCHANGED retrieveFrame

InitRetrieve ==
    /\ NoSearch
    /\ NoSide
    /\ pc = "found"

NextRetrieve == CacheFound \/ GetFound

SpecRetrieve == InitRetrieve /\ [][NextRetrieve]_vars

\* C40: after cache_path(P) for a loop-free path P a search returned (any
\* length from 1 hop to the depth cap), the cache's get for the normalized
\* start and end returns P.
C40_FoundPathRetrievable ==
    pc = "retrieved" => last_call.ret = last_call.path

====
